---- MODULE Spec2Model ----
(***************************************************************************)
(* The MovieClip timeline engine of core/src/display_object/movie_clip.rs: *)
(* the preload pass, the per-frame advance (run_frame), the goto algorithm *)
(* (run_goto), clip-event dispatch and the child list (depth map plus the  *)
(* doubly-linked execution list).                                          *)
(*                                                                         *)
(* Display objects live in an arena `objs` (a sequence; an object is its   *)
(* index, 0 is None).  Object 1 is the root clip, whose tag stream the     *)
(* initial state draws from a bounded set.  Handlers are operators that    *)
(* take the mutable context (arena, action queue, audio backend,           *)
(* background colour) as a record and return it changed; an action of the  *)
(* specification is one public operation applied to the root clip.         *)
(***************************************************************************)
EXTENDS Integers, Sequences, FiniteSets, TLC

VARIABLES
    movie,            \* the root clip's tag stream and header frame count
    swf_version,      \* context.swf_version
    hash_order,       \* the order in which the FnvHashMap goto_commands iterates its keys
    static_data,      \* what preload records of the root: frame labels, stream header
    objs,             \* arena of display objects (DisplayObjectBase + MovieClipData)
    action_queue,     \* context.action_queue: entries appended by the last operation
    audio,            \* the audio backend's record of streams and sound instances
    background_color, \* context.background_color
    lastOp            \* the public operation that produced this state

vars == <<movie, swf_version, hash_order, static_data, objs,
          action_queue, audio, background_color, lastOp>>

----------------------------------------------------------------------------
(* Bounds of the model *)

\* Largest number of display objects ever allocated in one behaviour.
MaxObjs == 3
\* Largest number of frames of a root tag stream.
MaxFrames == 3
\* Largest number of audio streams, and of sound instances, ever started in
\* one behaviour.
MaxStreams == 3

\* The depths tags and scripts place children at.
Depths == {1, 2}

Root == 1

----------------------------------------------------------------------------
(* Tags.  Every tag is a record of the same shape: its code, the length of *)
(* its body in bytes, and the decoded fields the handlers read.            *)

\* An absent Option field is "none"; absent clip actions are the empty sequence.
BaseTag ==
    [code |-> "End", len |-> 0, depth |-> 0, action |-> "Modify", id |-> 0,
     matrix |-> "none", color_transform |-> "none", ratio |-> "none",
     name |-> "none", clip_depth |-> "none", class_name |-> "none",
     background_color |-> "none", clip_actions |-> <<>>, data |-> "none",
     event |-> "none"]

EndTag == BaseTag
ShowFrame == [BaseTag EXCEPT !.code = "ShowFrame"]
DoAction(d) == [BaseTag EXCEPT !.code = "DoAction", !.len = 3, !.data = d]
\* DoInitAction: a 2-byte sprite id and the bytecode.
DoInitAction(d) == [BaseTag EXCEPT !.code = "DoInitAction", !.len = 5, !.data = d]
PlaceTag(id, depth) ==
    [BaseTag EXCEPT !.code = "PlaceObject2", !.len = 5, !.action = "Place",
                    !.id = id, !.depth = depth]
\* The clip actions a PlaceObject2 carries for the sprite it places.
ClipActionTable ==
    <<[events |-> {"Load", "EnterFrame", "KeyPress"}, action_data |-> "on_load_enter_key",
       len |-> 4],
      [events |-> {"Unload", "MouseDown"}, action_data |-> "on_unload_down", len |-> 4],
      [events |-> {"EnterFrame", "Unload", "MouseDown"}, action_data |-> "on_enter_unload_down",
       len |-> 4]>>

PlaceWithActions(id, depth) ==
    [PlaceTag(id, depth) EXCEPT !.len = 17, !.clip_actions = ClipActionTable]

ReplaceTag(id, depth) ==
    [BaseTag EXCEPT !.code = "PlaceObject2", !.len = 5, !.action = "Replace",
                    !.id = id, !.depth = depth]
ModifyTag(depth, m) ==
    [BaseTag EXCEPT !.code = "PlaceObject2", !.len = 7, !.action = "Modify",
                    !.depth = depth, !.matrix = m]
RemoveTag(depth) ==
    [BaseTag EXCEPT !.code = "RemoveObject2", !.len = 2, !.depth = depth]
SoundStreamHead == [BaseTag EXCEPT !.code = "SoundStreamHead", !.len = 4]
SoundStreamBlock == [BaseTag EXCEPT !.code = "SoundStreamBlock", !.len = 6]
FrameLabel(l) == [BaseTag EXCEPT !.code = "FrameLabel", !.len = 2, !.data = l]

DefineFont4 == [BaseTag EXCEPT !.code = "DefineFont4", !.len = 3]
\* StartSound: the sound's character id and the SoundInfo with its event.
StartSound(id, event) ==
    [BaseTag EXCEPT !.code = "StartSound", !.len = 3, !.id = id, !.event = event]

\* A tag is a 2-byte record header followed by its body.
TagSize(t) == 2 + t.len

RECURSIVE OffsetAfter(_, _)
\* Byte offset just past the i-th tag of a stream (0 for i = 0).
OffsetAfter(tags, i) ==
    IF i = 0 THEN 0 ELSE OffsetAfter(tags, i - 1) + TagSize(tags[i])

StreamLen(tags) == OffsetAfter(tags, Len(tags))

\* Index of the tag that starts at byte offset pos; Len(tags)+1 when the
\* reader is at (or past) the end of the slice.
TagIndexAt(tags, pos) ==
    IF \E i \in 1..Len(tags) : OffsetAfter(tags, i - 1) = pos
    THEN CHOOSE i \in 1..Len(tags) : OffsetAfter(tags, i - 1) = pos
    ELSE Len(tags) + 1

\* tag_utils::decode_tags(reader, callback, stop_tag): the index of the last
\* tag it hands to the callback when started at tag index i: the first
\* stop_tag at or after i, or the last tag of the slice when there is none.
DecodeEnd(tags, i, stop_tag) ==
    IF \E j \in i..Len(tags) : tags[j].code = stop_tag
    THEN CHOOSE j \in i..Len(tags) :
            /\ tags[j].code = stop_tag
            /\ \A k \in i..(j - 1) : tags[k].code # stop_tag
    ELSE Len(tags)

\* Number of ShowFrame tags among the first i tags.
ShowFramesBefore(tags, i) ==
    Cardinality({k \in 1..i : tags[k].code = "ShowFrame"})

----------------------------------------------------------------------------
(* The character library after preload: what DefineShape and DefineSprite  *)
(* registered.  Character 1 is a shape, 2 a two-frame sprite with a script *)
(* on each frame, 3 a two-frame sprite carrying streamed sound, 4 a        *)
(* one-frame sprite that places sprite 2 inside itself.  Any other id is   *)
(* unknown to the library.                                                 *)

SpriteTags ==
    <<DoAction("sprite_f1"), ShowFrame, DoAction("sprite_f2"), ShowFrame, EndTag>>

SoundSpriteTags ==
    <<SoundStreamHead, SoundStreamBlock, ShowFrame, SoundStreamBlock, ShowFrame,
      EndTag>>

HolderTags == <<PlaceTag(2, 1), ShowFrame, EndTag>>

Library ==
    [id \in {1, 2, 3, 4} |->
        CASE id = 1 -> [kind |-> "Graphic", tags |-> <<>>, total_frames |-> 0]
          [] id = 2 -> [kind |-> "MovieClip", tags |-> SpriteTags,
                        total_frames |-> ShowFramesBefore(SpriteTags, Len(SpriteTags))]
          [] id = 3 -> [kind |-> "MovieClip", tags |-> SoundSpriteTags,
                        total_frames |->
                            ShowFramesBefore(SoundSpriteTags, Len(SoundSpriteTags))]
          [] id = 4 -> [kind |-> "MovieClip", tags |-> HolderTags,
                        total_frames |-> ShowFramesBefore(HolderTags, Len(HolderTags))]]

----------------------------------------------------------------------------
(* Display objects *)

NoChildren == [d \in Depths |-> 0]

\* MovieClip::new_with_data: a clip before its first frame, flagged Playing.
NewMovieClip(id) ==
    [id |-> id, kind |-> "MovieClip",
     parent |-> 0, depth |-> 0, place_frame |-> 0,
     prev_sibling |-> 0, next_sibling |-> 0, first_child |-> 0,
     removed |-> FALSE, matrix |-> "identity",
     children |-> NoChildren,
     tag_stream_pos |-> 0, current_frame |-> 0, audio_stream |-> 0,
     playing |-> TRUE, initialized |-> FALSE, clip_actions |-> <<>>]

\* A display object without a timeline (Graphic): only the base fields matter.
NewGraphic(id) ==
    [NewMovieClip(id) EXCEPT !.kind = "Graphic", !.playing = FALSE]

\* library.instantiate_by_id: a fresh instance of a registered character.
CanInstantiate(id) == id \in DOMAIN Library

Instantiate(id) ==
    IF Library[id].kind = "MovieClip" THEN NewMovieClip(id) ELSE NewGraphic(id)

\* The per-definition data of the clip record x (MovieClipStatic).
TagsOf(x) == IF x.id = 0 THEN movie.tags ELSE Library[x.id].tags

total_frames(x) ==
    IF x.id = 0 THEN movie.total_frames ELSE Library[x.id].total_frames

\* static_data.audio_stream_info.is_some(): preload met a SoundStreamHead.
HasStreamHead(tags) == \E i \in 1..Len(tags) : tags[i].code = "SoundStreamHead"

audio_stream_info(x) ==
    IF x.id = 0 THEN static_data.audio_stream_info ELSE HasStreamHead(Library[x.id].tags)

----------------------------------------------------------------------------
(* The mutable context handed to every handler.  A handler that mutates in *)
(* several steps is written as its steps, local operators named after what *)
(* the statement does, applied in the order the code executes them.        *)

Ctx == [objs |-> objs, queue |-> action_queue, audio |-> audio,
        background_color |-> background_color]

\* action_queue.queue_actions(target, action_type, is_unload)
QueueActions(c, target, type, data, is_unload) ==
    [c EXCEPT !.queue = Append(@, [target |-> target, type |-> type, data |-> data,
                                   start |-> 0, end |-> 0, is_unload |-> is_unload])]

\* audio.start_stream: a new handle, playing.
StartStream(c, o) ==
    [c EXCEPT !.audio.streams = Append(@, [clip |-> o, stops |-> 0]),
              !.objs[o].audio_stream = Len(c.audio.streams) + 1]

\* audio.stop_stream(handle)
StopStream(c, h) == [c EXCEPT !.audio.streams[h].stops = @ + 1]

\* The sounds DefineSound registered: library.get_sound(id), 0 for None.
SoundIds == {7, 8}

GetSound(id) == IF id \in SoundIds THEN id ELSE 0

\* audio.start_sound(handle, info): one more instance, playing.
StartSoundInstance(c, handle) ==
    [c EXCEPT !.audio.sounds = Append(@, [handle |-> handle, playing |-> TRUE])]

\* audio.is_sound_playing_with_handle(handle)
IsSoundPlayingWithHandle(a, handle) ==
    \E k \in 1..Len(a.sounds) : a.sounds[k].handle = handle /\ a.sounds[k].playing

\* audio.stop_sounds_with_handle(handle)
StopSoundsWithHandle(c, handle) ==
    [c EXCEPT !.audio.sounds =
        [k \in 1..Len(@) |->
            IF @[k].handle = handle THEN [@[k] EXCEPT !.playing = FALSE] ELSE @[k]]]

\* start_sound_1 whose Start sounds play like Event sounds.
StartSound1IgnoringInstances(c, t) ==
    IF GetSound(t.id) # 0
    THEN CASE t.event = "Event" -> StartSoundInstance(c, GetSound(t.id))
           [] t.event = "Start" -> StartSoundInstance(c, GetSound(t.id))
           [] t.event = "Stop" -> StopSoundsWithHandle(c, GetSound(t.id))
    ELSE c

\* MovieClipData::start_sound_1
StartSound1(c, t) ==
    IF GetSound(t.id) # 0
    THEN CASE t.event = "Event" -> StartSoundInstance(c, GetSound(t.id))
           [] t.event = "Start" ->
                IF ~IsSoundPlayingWithHandle(c.audio, GetSound(t.id))
                THEN StartSoundInstance(c, GetSound(t.id))
                ELSE c
           [] t.event = "Stop" -> StopSoundsWithHandle(c, GetSound(t.id))
    ELSE c

\* The ActionScript handler name of a clip event ("" when it has none).
MethodName(event) ==
    CASE event = "Construct" -> ""
      [] event = "Data" -> "onData"
      [] event = "DragOut" -> "onDragOut"
      [] event = "DragOver" -> "onDragOver"
      [] event = "EnterFrame" -> "onEnterFrame"
      [] event = "Initialize" -> ""
      [] event = "KeyDown" -> "onKeyDown"
      [] event = "KeyPress" -> ""
      [] event = "KeyUp" -> "onKeyUp"
      [] event = "Load" -> "onLoad"
      [] event = "MouseDown" -> "onMouseDown"
      [] event = "MouseMove" -> "onMouseMove"
      [] event = "MouseUp" -> "onMouseUp"
      [] event = "Press" -> "onPress"
      [] event = "RollOut" -> "onRollOut"
      [] event = "RollOver" -> "onRollOver"
      [] event = "Release" -> "onRelease"
      [] event = "ReleaseOutside" -> "onReleaseOutside"
      [] event = "Unload" -> "onUnload"

\* run_clip_action that flags nothing as an unload action.
RunClipActionUnflagged(c, o, event) ==
    IF swf_version >= 5
    THEN LET acts == SelectSeq(c.objs[o].clip_actions, LAMBDA a : event \in a.events)
             queued == [i \in 1..Len(acts) |->
                          [target |-> o, type |-> "Normal",
                           data |-> acts[i].action_data,
                           start |-> 0, end |-> acts[i].len,
                           is_unload |-> FALSE]]
             QueueMethod(a) ==
                IF swf_version >= 6 /\ MethodName(event) # ""
                THEN QueueActions(a, o, "Method", MethodName(event), FALSE)
                ELSE a
         IN  QueueMethod([c EXCEPT !.queue = @ \o queued])
    ELSE c

\* run_clip_action that queues the method handlers from version 5 on.
RunClipActionMethodsFromFive(c, o, event) ==
    IF swf_version >= 5
    THEN LET acts == SelectSeq(c.objs[o].clip_actions, LAMBDA a : event \in a.events)
             queued == [i \in 1..Len(acts) |->
                          [target |-> o, type |-> "Normal",
                           data |-> acts[i].action_data,
                           start |-> 0, end |-> acts[i].len,
                           is_unload |-> (event = "Unload")]]
             QueueMethod(a) ==
                IF MethodName(event) # ""
                THEN QueueActions(a, o, "Method", MethodName(event), event = "Unload")
                ELSE a
         IN  QueueMethod([c EXCEPT !.queue = @ \o queued])
    ELSE c

\* MovieClipData::run_clip_action
RunClipAction(c, o, event) ==
    IF swf_version >= 5
    THEN LET acts == SelectSeq(c.objs[o].clip_actions, LAMBDA a : event \in a.events)
             queued == [i \in 1..Len(acts) |->
                          [target |-> o, type |-> "Normal",
                           data |-> acts[i].action_data,
                           start |-> 0, end |-> acts[i].len,
                           is_unload |-> (event = "Unload")]]
             QueueMethod(a) ==
                IF swf_version >= 6 /\ MethodName(event) # ""
                THEN QueueActions(a, o, "Method", MethodName(event), event = "Unload")
                ELSE a
         IN  QueueMethod([c EXCEPT !.queue = @ \o queued])
    ELSE c

\* MovieClip::unload (a clip) and the trait's default (any other object).
Unload(c, x) ==
    [(IF c.objs[x].kind = "MovieClip" THEN RunClipAction(c, x, "Unload") ELSE c)
        EXCEPT !.objs[x].removed = TRUE]

\* MovieClipData::stop
Stop(c, o) ==
    IF c.objs[o].audio_stream # 0
    THEN StopStream([c EXCEPT !.objs[o].playing = FALSE, !.objs[o].audio_stream = 0],
                    c.objs[o].audio_stream)
    ELSE [c EXCEPT !.objs[o].playing = FALSE]

\* MovieClipData::play
Play(c, o) ==
    IF total_frames(c.objs[o]) > 1 THEN [c EXCEPT !.objs[o].playing = TRUE] ELSE c

----------------------------------------------------------------------------
(* The execution list *)

RECURSIVE Walk(_, _, _)
Walk(os, x, fuel) ==
    IF x = 0 \/ fuel = 0 THEN <<>>
    ELSE <<x>> \o Walk(os, os[x].next_sibling, fuel - 1)

\* The children of o in execution order: from first_child along next_sibling.
ExecList(os, o) == Walk(os, os[o].first_child, Len(os))

\* MovieClipData::add_child_to_exec_list
AddChildToExecList(c, o, child) ==
    IF c.objs[o].first_child # 0
    THEN [c EXCEPT !.objs[c.objs[o].first_child].prev_sibling = child,
                   !.objs[child].next_sibling = c.objs[o].first_child,
                   !.objs[o].first_child = child]
    ELSE [c EXCEPT !.objs[o].first_child = child]

\* MovieClipData::remove_child_from_exec_list
RemoveChildFromExecList(c, o, child) ==
    LET prev == c.objs[child].prev_sibling
        next == c.objs[child].next_sibling
        LinkPrev(a) == IF prev # 0 THEN [a EXCEPT !.objs[prev].next_sibling = next] ELSE a
        LinkNext(a) == IF next # 0 THEN [a EXCEPT !.objs[next].prev_sibling = prev] ELSE a
        MoveHead(a) == IF a.objs[o].first_child # 0 /\ a.objs[o].first_child = child
                       THEN [a EXCEPT !.objs[o].first_child = next]
                       ELSE a
    IN  Unload(MoveHead(LinkNext(LinkPrev(c))), child)

\* DisplayObject::apply_place_object: the fields the placement carries overwrite
\* the object's.
ApplyPlaceObject(c, x, po) ==
    [c EXCEPT !.objs[x].matrix = IF po.matrix # "none" THEN po.matrix ELSE @,
              !.objs[x].clip_actions =
                    IF po.clip_actions # <<>> /\ c.objs[x].kind = "MovieClip"
                    THEN po.clip_actions ELSE @]

\* DisplayObject::copy_display_properties_from
CopyDisplayPropertiesFrom(c, x, from) ==
    [c EXCEPT !.objs[x].matrix = c.objs[from].matrix]

----------------------------------------------------------------------------
(* Stacked placements of a goto (GotoPlaceObject) *)

NoCommand == [present |-> FALSE, frame |-> 0, place_object |-> BaseTag]

NoCommands == [d \in Depths |-> NoCommand]

OrDefault(v, default) == IF v = "none" THEN default ELSE v

\* GotoPlaceObject::new that never fills in the defaults of a Place.
GotoPlaceObjectNewAsRead(frame, place_object, is_rewind) ==
    [present |-> TRUE, frame |-> frame, place_object |-> place_object]

\* GotoPlaceObject::new
GotoPlaceObjectNew(frame, place_object, is_rewind) ==
    [present |-> TRUE, frame |-> frame,
     place_object |->
        IF is_rewind /\ place_object.action = "Place"
        THEN [place_object EXCEPT
                !.matrix = OrDefault(@, "identity"),
                !.color_transform = OrDefault(@, "default"),
                !.ratio = OrDefault(@, "default"),
                !.name = OrDefault(@, "default"),
                !.clip_depth = OrDefault(@, "default"),
                !.class_name = OrDefault(@, "default")]
        ELSE place_object]

\* GotoPlaceObject::id
GotoId(params) ==
    IF params.place_object.action \in {"Place", "Replace"}
    THEN params.place_object.id ELSE 0

\* GotoPlaceObject::modifies_original_item
ModifiesOriginalItem(params) == params.place_object.action = "Replace"

Newer(next, cur) == IF next # "none" THEN next ELSE cur

\* merge that takes the frame of the newer placement whatever its action.
MergeTakingNewerFrame(cur, next) ==
    LET cp == cur.place_object
        np == next.place_object
    IN  [present |-> TRUE,
         frame |-> next.frame,
         place_object |->
            [cp EXCEPT
                !.action = IF np.action = "Modify" THEN cp.action ELSE np.action,
                !.id = IF np.action = "Modify" THEN cp.id ELSE np.id,
                !.matrix = Newer(np.matrix, @),
                !.color_transform = Newer(np.color_transform, @),
                !.ratio = Newer(np.ratio, @),
                !.name = Newer(np.name, @),
                !.clip_depth = Newer(np.clip_depth, @),
                !.class_name = Newer(np.class_name, @),
                !.background_color = Newer(np.background_color, @)]]

\* GotoPlaceObject::merge
Merge(cur, next) ==
    LET cp == cur.place_object
        np == next.place_object
    IN  [present |-> TRUE,
         frame |-> IF np.action = "Modify" THEN cur.frame ELSE next.frame,
         place_object |->
            [cp EXCEPT
                !.action = IF np.action = "Modify" THEN cp.action ELSE np.action,
                !.id = IF np.action = "Modify" THEN cp.id ELSE np.id,
                !.matrix = Newer(np.matrix, @),
                !.color_transform = Newer(np.color_transform, @),
                !.ratio = Newer(np.ratio, @),
                !.name = Newer(np.name, @),
                !.clip_depth = Newer(np.clip_depth, @),
                !.class_name = Newer(np.class_name, @),
                !.background_color = Newer(np.background_color, @)]]

\* MovieClipData::goto_place_object
GotoPlaceObject(cmds, cur_frame, t, is_rewind) ==
    [cmds EXCEPT ![t.depth] =
        IF @.present
        THEN Merge(@, GotoPlaceObjectNew(cur_frame, t, is_rewind))
        ELSE GotoPlaceObjectNew(cur_frame, t, is_rewind)]

----------------------------------------------------------------------------
(* Control tags, run_frame and run_goto *)

\* The reader's byte position when it stands before tag i.
ReaderPos(tags, i) == OffsetAfter(tags, i - 1)

\* MovieClipData::do_action; i is the tag's index, the reader stands at its body.
DoActionTag(c, o, tags, i) ==
    [c EXCEPT !.queue = Append(@,
        [target |-> o, type |-> "Normal", data |-> tags[i].data,
         start |-> ReaderPos(tags, i) + 2,
         end |-> ReaderPos(tags, i) + 2 + tags[i].len, is_unload |-> FALSE])]

\* sound_stream_block that starts a stream whether or not the clip holds one.
SoundStreamBlockTagAlwaysStarting(c, o) ==
    IF audio_stream_info(c.objs[o]) THEN StartStream(c, o) ELSE c

\* MovieClipData::sound_stream_block
SoundStreamBlockTag(c, o) ==
    IF audio_stream_info(c.objs[o]) /\ c.objs[o].audio_stream = 0
    THEN StartStream(c, o)
    ELSE c

\* MovieClipData::set_background_color
SetBackgroundColorTag(c, t) == [c EXCEPT !.background_color = t.data]

\* MovieClipData::remove_object, and the removal of the live child in
\* goto_remove_object.
RemoveChildAt(c, o, depth) ==
    IF c.objs[o].children[depth] # 0
    THEN RemoveChildFromExecList([c EXCEPT !.objs[o].children[depth] = 0], o,
                                 c.objs[o].children[depth])
    ELSE c

RECURSIVE RunFrame(_, _), RunFrameChildren(_, _), RunFrameInternal(_, _, _),
          RunFrameTags(_, _, _), RunTags(_, _, _, _, _, _), RunTag(_, _, _, _, _),
          InstantiateChild(_, _, _, _, _, _), PlaceObject(_, _, _),
          RunGoto(_, _, _), RunGotoCommand(_, _, _, _, _),
          RunGotoCommands(_, _, _, _, _)

\* run_frame_internal whose last branch forgets to stop the single-frame clip.
RunFrameInternalNeverStopping(c, o, run_display_actions) ==
    IF /\ c.objs[o].current_frame >= total_frames(c.objs[o])
       /\ total_frames(c.objs[o]) > 1
    THEN RunGoto(c, o, 1)
    ELSE RunFrameTags(IF c.objs[o].current_frame < total_frames(c.objs[o])
                      THEN [c EXCEPT !.objs[o].current_frame = @ + 1]
                      ELSE c,
                      o, run_display_actions)

\* run_frame that never marks the clip initialized.
RunFrameAlwaysLoading(c, o) ==
    IF c.objs[o].kind # "MovieClip" THEN c
    ELSE LET ClipEvent(a) == RunClipAction(a, o, "Load")
             Advance(a) ==
                IF a.objs[o].playing THEN RunFrameInternal(a, o, TRUE) ELSE a
         IN  Advance(ClipEvent(RunFrameChildren(c, ExecList(c.objs, o))))

\* run_frame that fires the clip's own event before it runs its children.
RunFrameParentFirst(c, o) ==
    IF c.objs[o].kind # "MovieClip" THEN c
    ELSE LET ClipEvent(a) ==
                IF ~a.objs[o].initialized
                THEN [RunClipAction(a, o, "Load") EXCEPT !.objs[o].initialized = TRUE]
                ELSE RunClipAction(a, o, "EnterFrame")
             Children(a) == RunFrameChildren(a, ExecList(a.objs, o))
             Advance(a) ==
                IF a.objs[o].playing THEN RunFrameInternal(a, o, TRUE) ELSE a
         IN  Advance(Children(ClipEvent(c)))

\* MovieClipData::instantiate_child; returns the context and the child (0: None).
InstantiateChild(c, o, id, depth, place_object, copy_previous_properties) ==
    IF CanInstantiate(id)
    THEN LET child == Len(c.objs) + 1
             prev_child == c.objs[o].children[depth]
             Insert(a) == [a EXCEPT !.objs = Append(@, Instantiate(id)),
                                    !.objs[o].children[depth] = child]
             RemovePrev(a) ==
                IF prev_child # 0 THEN RemoveChildFromExecList(a, o, prev_child) ELSE a
             SetPlacement(a) ==
                [a EXCEPT !.objs[child].depth = depth,
                          !.objs[child].parent = o,
                          !.objs[child].place_frame = c.objs[o].current_frame]
             CopyPrev(a) ==
                IF copy_previous_properties /\ prev_child # 0
                THEN CopyDisplayPropertiesFrom(a, child, prev_child) ELSE a
         IN  [c |-> RunFrame(
                      ApplyPlaceObject(
                        CopyPrev(SetPlacement(
                          AddChildToExecList(RemovePrev(Insert(c)), o, child))),
                        child, place_object),
                      child),
              child |-> child]
    ELSE [c |-> c, child |-> 0]

\* MovieClipData::place_object
PlaceObject(c, o, t) ==
    IF t.action \in {"Place", "Replace"}
    THEN InstantiateChild(c, o, t.id, t.depth, t, t.action = "Replace").c
    ELSE IF c.objs[o].children[t.depth] # 0
    THEN ApplyPlaceObject(c, c.objs[o].children[t.depth], t)
    ELSE c

\* The tag callback of run_frame_internal.
RunTag(c, o, tags, i, run_display_actions) ==
    CASE tags[i].code = "DoAction" -> DoActionTag(c, o, tags, i)
      [] tags[i].code = "PlaceObject2" /\ run_display_actions ->
            PlaceObject(c, o, tags[i])
      [] tags[i].code = "RemoveObject2" /\ run_display_actions ->
            RemoveChildAt(c, o, tags[i].depth)
      [] tags[i].code = "SetBackgroundColor" -> SetBackgroundColorTag(c, tags[i])
      [] tags[i].code = "SoundStreamBlock" -> SoundStreamBlockTag(c, o)
      [] tags[i].code = "StartSound" -> StartSound1(c, tags[i])
      [] OTHER -> c

RunTags(c, o, tags, i, j, run_display_actions) ==
    IF i > j THEN c
    ELSE RunTags(RunTag(c, o, tags, i, run_display_actions), o, tags, i + 1, j,
                 run_display_actions)

\* The decoding of a frame that leaves a stream playing whether or not the
\* frame fed it.
RunFrameTagsKeepingStream(c, o, run_display_actions) ==
    LET tags == TagsOf(c.objs[o])
        i == TagIndexAt(tags, c.objs[o].tag_stream_pos)
        j == DecodeEnd(tags, i, "ShowFrame")
        SavePos(a) == [a EXCEPT !.objs[o].tag_stream_pos =
                            IF i > Len(tags) THEN @ ELSE OffsetAfter(tags, j)]
    IN  SavePos(RunTags(c, o, tags, i, j, run_display_actions))

\* run_frame_internal after the frame number is advanced: decode the tags up
\* to ShowFrame, save the reader's position, stop a stream the frame did not feed.
RunFrameTags(c, o, run_display_actions) ==
    LET tags == TagsOf(c.objs[o])
        i == TagIndexAt(tags, c.objs[o].tag_stream_pos)
        j == DecodeEnd(tags, i, "ShowFrame")
        has_stream_block == \E k \in i..j : tags[k].code = "SoundStreamBlock"
        SavePos(a) == [a EXCEPT !.objs[o].tag_stream_pos =
                            IF i > Len(tags) THEN @ ELSE OffsetAfter(tags, j)]
        StopUnfed(a) ==
            IF a.objs[o].audio_stream # 0 /\ ~has_stream_block
            THEN [StopStream(a, a.objs[o].audio_stream)
                    EXCEPT !.objs[o].audio_stream = 0]
            ELSE a
    IN  StopUnfed(SavePos(RunTags(c, o, tags, i, j, run_display_actions)))

\* run_frame_internal that stops on the last frame of every clip instead of
\* looping.
RunFrameInternalStoppingAtEnd(c, o, run_display_actions) ==
    RunFrameTags(IF c.objs[o].current_frame < total_frames(c.objs[o])
                 THEN [c EXCEPT !.objs[o].current_frame = @ + 1]
                 ELSE Stop(c, o),
                 o, run_display_actions)

\* MovieClipData::run_frame_internal: advance, or loop through run_goto(1) and
\* return, or stop and go on to decode from the saved position.
RunFrameInternal(c, o, run_display_actions) ==
    IF /\ c.objs[o].current_frame >= total_frames(c.objs[o])
       /\ total_frames(c.objs[o]) > 1
    THEN RunGoto(c, o, 1)
    ELSE RunFrameTags(IF c.objs[o].current_frame < total_frames(c.objs[o])
                      THEN [c EXCEPT !.objs[o].current_frame = @ + 1]
                      ELSE Stop(c, o),
                      o, run_display_actions)

RunFrameChildren(c, list) ==
    IF list = <<>> THEN c
    ELSE RunFrameChildren(RunFrame(c, Head(list)), Tail(list))

\* MovieClip::run_frame (a clip); the trait's default does nothing.
RunFrame(c, o) ==
    IF c.objs[o].kind # "MovieClip" THEN c
    ELSE LET ClipEvent(a) ==
                IF ~a.objs[o].initialized
                THEN [RunClipAction(a, o, "Load") EXCEPT !.objs[o].initialized = TRUE]
                ELSE RunClipAction(a, o, "EnterFrame")
             Advance(a) ==
                IF a.objs[o].playing THEN RunFrameInternal(a, o, TRUE) ELSE a
         IN  Advance(ClipEvent(RunFrameChildren(c, ExecList(c.objs, o))))

RECURSIVE ActionsOnFrameTags(_, _, _, _, _)
\* The tag callback of actions_on_frame over the tags i..j of one decode_tags
\* call; s is [cur_frame, actions].
ActionsOnFrameTags(s, tags, frame, i, j) ==
    IF i > j THEN s
    ELSE LET Callback(a) ==
                CASE tags[i].code = "ShowFrame" -> [a EXCEPT !.cur_frame = @ + 1]
                  [] tags[i].code = "DoAction" /\ a.cur_frame = frame ->
                        [a EXCEPT !.actions = Append(@,
                            [data |-> tags[i].data,
                             start |-> ReaderPos(tags, i) + 2,
                             end |-> ReaderPos(tags, i) + 2 + tags[i].len])]
                  [] OTHER -> a
         IN  ActionsOnFrameTags(Callback(s), tags, frame, i + 1, j)

RECURSIVE ActionsOnFrameLoop(_, _, _, _)
\* The while loop of actions_on_frame; i is the tag the reader stands before.
ActionsOnFrameLoop(s, tags, frame, i) ==
    IF s.cur_frame <= frame /\ ReaderPos(tags, i) < StreamLen(tags)
    THEN ActionsOnFrameLoop(
            ActionsOnFrameTags(s, tags, frame, i, DecodeEnd(tags, i, "ShowFrame")),
            tags, frame, DecodeEnd(tags, i, "ShowFrame") + 1)
    ELSE s

\* actions_on_frame that counts the frames from 0.
ActionsOnFrameCountingFromZero(tags, frame) ==
    ActionsOnFrameLoop([cur_frame |-> 0, actions |-> <<>>], tags, frame, 1).actions

\* MovieClip::actions_on_frame on a clip with the tag stream tags.
ActionsOnFrame(tags, frame) ==
    ActionsOnFrameLoop([cur_frame |-> 1, actions |-> <<>>], tags, frame, 1).actions

RECURSIVE PropagateClipEvent(_, _, _), PropagateToChildren(_, _, _)

PropagateToChildren(c, list, event) ==
    IF list = <<>> THEN c
    ELSE PropagateToChildren(PropagateClipEvent(c, Head(list), event), Tail(list), event)

\* propagate_clip_event that handles the event on the clip before its children.
PropagateClipEventParentFirst(c, o, event) ==
    IF c.objs[o].kind # "MovieClip" THEN c
    ELSE PropagateToChildren(RunClipAction(c, o, event), ExecList(c.objs, o), event)

\* MovieClip::propagate_clip_event (a clip); the trait's default does nothing.
PropagateClipEvent(c, o, event) ==
    IF c.objs[o].kind # "MovieClip" THEN c
    ELSE RunClipAction(PropagateToChildren(c, ExecList(c.objs, o), event), o, event)

\* The depths of a set in ascending order (BTreeMap iteration order).
RECURSIVE Ascending(_)
Ascending(S) ==
    IF S = {} THEN <<>>
    ELSE <<CHOOSE d \in S : \A e \in S : d <= e>>
         \o Ascending(S \ {CHOOSE d \in S : \A e \in S : d <= e})

RECURSIVE RemoveChildrenAt(_, _, _)
RemoveChildrenAt(c, o, depths) ==
    IF depths = <<>> THEN c
    ELSE RemoveChildrenAt(RemoveChildAt(c, o, Head(depths)), o, Tail(depths))

\* A rewind that removes no child.
RewindKeepingChildren(c, o, frame) ==
    [c EXCEPT !.objs[o].tag_stream_pos = 0, !.objs[o].current_frame = 0]

\* A rewind that also removes the children created on the destination frame.
RewindRemovingTargetFrame(c, o, frame) ==
    RemoveChildrenAt(
        [c EXCEPT !.objs[o].tag_stream_pos = 0, !.objs[o].current_frame = 0], o,
        Ascending({d \in Depths :
                      /\ c.objs[o].children[d] # 0
                      /\ c.objs[c.objs[o].children[d]].place_frame >= frame}))

\* run_goto, the rewind: restart at frame 0 and remove the children created
\* after the destination frame.
Rewind(c, o, frame) ==
    RemoveChildrenAt(
        [c EXCEPT !.objs[o].tag_stream_pos = 0, !.objs[o].current_frame = 0], o,
        Ascending({d \in Depths :
                      /\ c.objs[o].children[d] # 0
                      /\ c.objs[c.objs[o].children[d]].place_frame > frame}))

\* The tag callback of an aggregation that also queues the DoAction blocks of
\* the frames it steps through.
GotoTagQueueingActions(g, o, t, is_rewind) ==
    CASE t.code = "PlaceObject2" ->
            [g EXCEPT !.cmds = GotoPlaceObject(@, g.c.objs[o].current_frame, t, is_rewind)]
      [] t.code = "RemoveObject2" ->
            [c |-> IF is_rewind THEN g.c ELSE RemoveChildAt(g.c, o, t.depth),
             cmds |-> [g.cmds EXCEPT ![t.depth] = NoCommand]]
      [] t.code = "DoAction" ->
            [g EXCEPT !.c = QueueActions(@, o, "Normal", t.data, FALSE)]
      [] OTHER -> g

\* The tag callback with a goto_remove_object that leaves the stacked placement
\* of the depth in the map.
GotoTagKeepingPlacement(g, o, t, is_rewind) ==
    CASE t.code = "PlaceObject2" ->
            [g EXCEPT !.cmds = GotoPlaceObject(@, g.c.objs[o].current_frame, t, is_rewind)]
      [] t.code = "RemoveObject2" ->
            [c |-> IF is_rewind THEN g.c ELSE RemoveChildAt(g.c, o, t.depth),
             cmds |-> g.cmds]
      [] OTHER -> g

\* The tag callback of run_goto's aggregation; g is [c, cmds].
GotoTag(g, o, t, is_rewind) ==
    CASE t.code = "PlaceObject2" ->
            [g EXCEPT !.cmds = GotoPlaceObject(@, g.c.objs[o].current_frame, t, is_rewind)]
      [] t.code = "RemoveObject2" ->
            \* goto_remove_object
            [c |-> IF is_rewind THEN g.c ELSE RemoveChildAt(g.c, o, t.depth),
             cmds |-> [g.cmds EXCEPT ![t.depth] = NoCommand]]
      [] OTHER -> g

RECURSIVE GotoTags(_, _, _, _, _, _)
GotoTags(g, o, tags, i, j, is_rewind) ==
    IF i > j THEN g
    ELSE GotoTags(GotoTag(g, o, tags[i], is_rewind), o, tags, i + 1, j, is_rewind)

\* run_goto, the aggregation loop: step through the intermediate frames with
\* one reader; a is [c, cmds, i, frame_pos], i the tag the reader stands before.
RECURSIVE Aggregate(_, _, _, _)
Aggregate(a, o, frame, is_rewind) ==
    IF a.c.objs[o].current_frame < frame
    THEN LET tags == TagsOf(a.c.objs[o])
             j == DecodeEnd(tags, a.i, "ShowFrame")
             NextFrameOf(g) ==
                [c |-> g.c, cmds |-> g.cmds,
                 i |-> IF a.i > Len(tags) THEN a.i ELSE j + 1,
                 frame_pos |-> ReaderPos(tags, a.i)]
         IN  Aggregate(
                NextFrameOf(
                    GotoTags([c |-> [a.c EXCEPT !.objs[o].current_frame = @ + 1],
                              cmds |-> a.cmds],
                             o, tags, a.i, j, is_rewind)),
                o, frame, is_rewind)
    ELSE a

\* run_goto's closure run_goto_command
RunGotoCommand(c, o, depth, params, is_rewind) ==
    IF c.objs[o].children[depth] # 0 /\ (GotoId(params) = 0 \/ is_rewind)
    THEN ApplyPlaceObject(c, c.objs[o].children[depth], params.place_object)
    ELSE LET SetPlaceFrame(r) ==
                IF r.child # 0
                THEN [r.c EXCEPT !.objs[r.child].place_frame = params.frame]
                ELSE r.c
         IN  SetPlaceFrame(InstantiateChild(c, o, GotoId(params), depth,
                                            params.place_object,
                                            ModifiesOriginalItem(params)))

\* goto_commands.iter().filter(..).for_each(run_goto_command): the depths in
\* the map's iteration order.
RunGotoCommands(c, o, cmds, order, is_rewind) ==
    IF order = <<>> THEN c
    ELSE RunGotoCommands(RunGotoCommand(c, o, Head(order), cmds[Head(order)], is_rewind),
                         o, cmds, Tail(order), is_rewind)

\* run_goto that replays the target frame before it runs any goto command.
RunGotoReplayingFirst(c, o, frame) ==
    LET is_rewind == frame < c.objs[o].current_frame
        Start(a) ==
            [c |-> a, cmds |-> NoCommands,
             i |-> TagIndexAt(TagsOf(c.objs[o]), a.objs[o].tag_stream_pos),
             frame_pos |-> a.objs[o].tag_stream_pos]
        All(cmds) == SelectSeq(hash_order, LAMBDA d : cmds[d].present)
        SetReader(a, frame_pos) ==
            [a EXCEPT !.objs[o].current_frame = frame - 1,
                      !.objs[o].tag_stream_pos = frame_pos]
        Finish(a) ==
            RunGotoCommands(RunFrameInternal(SetReader(a.c, a.frame_pos), o, FALSE),
                            o, a.cmds, All(a.cmds), is_rewind)
    IN  Finish(Aggregate(Start(IF is_rewind THEN Rewind(c, o, frame) ELSE c),
                         o, frame, is_rewind))

\* run_goto that decodes the target frame from the position the clip held
\* before the goto instead of the position the aggregation reached.
RunGotoFromSavedPosition(c, o, frame) ==
    LET is_rewind == frame < c.objs[o].current_frame
        Start(a) ==
            [c |-> a, cmds |-> NoCommands,
             i |-> TagIndexAt(TagsOf(c.objs[o]), a.objs[o].tag_stream_pos),
             frame_pos |-> a.objs[o].tag_stream_pos]
        Before(cmds) ==
            SelectSeq(hash_order, LAMBDA d : cmds[d].present /\ cmds[d].frame < frame)
        After(cmds) ==
            SelectSeq(hash_order, LAMBDA d : cmds[d].present /\ cmds[d].frame >= frame)
        SetReader(a) == [a EXCEPT !.objs[o].current_frame = frame - 1]
        Finish(a) ==
            RunGotoCommands(
                RunFrameInternal(
                    SetReader(RunGotoCommands(a.c, o, a.cmds, Before(a.cmds), is_rewind)),
                    o, FALSE),
                o, a.cmds, After(a.cmds), is_rewind)
    IN  Finish(Aggregate(Start(IF is_rewind THEN Rewind(c, o, frame) ELSE c),
                         o, frame, is_rewind))

\* MovieClipData::run_goto
RunGoto(c, o, frame) ==
    LET is_rewind == frame < c.objs[o].current_frame
        Start(a) ==
            [c |-> a, cmds |-> NoCommands,
             i |-> TagIndexAt(TagsOf(c.objs[o]), a.objs[o].tag_stream_pos),
             frame_pos |-> a.objs[o].tag_stream_pos]
        Before(cmds) ==
            SelectSeq(hash_order, LAMBDA d : cmds[d].present /\ cmds[d].frame < frame)
        After(cmds) ==
            SelectSeq(hash_order, LAMBDA d : cmds[d].present /\ cmds[d].frame >= frame)
        SetReader(a, frame_pos) ==
            [a EXCEPT !.objs[o].current_frame = frame - 1,
                      !.objs[o].tag_stream_pos = frame_pos]
        Finish(a) ==
            RunGotoCommands(
                RunFrameInternal(
                    SetReader(RunGotoCommands(a.c, o, a.cmds, Before(a.cmds), is_rewind),
                              a.frame_pos),
                    o, FALSE),
                o, a.cmds, After(a.cmds), is_rewind)
    IN  Finish(Aggregate(Start(IF is_rewind THEN Rewind(c, o, frame) ELSE c),
                         o, frame, is_rewind))

\* goto_frame that runs the goto even when the clip is on the frame already.
GotoFrameAlwaysSeeking(c, o, frame, stop) ==
    LET tf == total_frames(c.objs[o])
        clamped == IF frame < 1 THEN 1 ELSE IF frame > tf THEN tf ELSE frame
        Go(a) == RunGoto(a, o, clamped)
    IN  Go(IF stop THEN Stop(c, o) ELSE Play(c, o))

\* goto_frame that clamps the frame number from above only.
GotoFrameClampedAbove(c, o, frame, stop) ==
    LET tf == total_frames(c.objs[o])
        clamped == IF frame > tf THEN tf ELSE frame
        Go(a) == IF clamped # a.objs[o].current_frame THEN RunGoto(a, o, clamped) ELSE a
    IN  Go(IF stop THEN Stop(c, o) ELSE Play(c, o))

\* goto_frame without the clamp of the frame number to 1..total_frames.
GotoFrameUnclamped(c, o, frame, stop) ==
    LET Go(a) == IF frame # a.objs[o].current_frame THEN RunGoto(a, o, frame) ELSE a
    IN  Go(IF stop THEN Stop(c, o) ELSE Play(c, o))

\* MovieClipData::goto_frame
GotoFrame(c, o, frame, stop) ==
    LET tf == total_frames(c.objs[o])
        clamped == IF frame < 1 THEN 1 ELSE IF frame > tf THEN tf ELSE frame
        Go(a) == IF clamped # a.objs[o].current_frame THEN RunGoto(a, o, clamped) ELSE a
    IN  Go(IF stop THEN Stop(c, o) ELSE Play(c, o))

\* MovieClip::next_frame
NextFrame(c, o) ==
    IF c.objs[o].current_frame < total_frames(c.objs[o])
    THEN GotoFrame(c, o, c.objs[o].current_frame + 1, TRUE)
    ELSE c

\* prev_frame that is off by one: it asks for the frame the clip is on.
PrevFrameSameFrame(c, o) ==
    IF c.objs[o].current_frame > 1
    THEN GotoFrame(c, o, c.objs[o].current_frame, TRUE)
    ELSE c

\* MovieClip::prev_frame
PrevFrame(c, o) ==
    IF c.objs[o].current_frame > 1
    THEN GotoFrame(c, o, c.objs[o].current_frame - 1, TRUE)
    ELSE c

\* MovieClip::add_child_from_avm
AddChildFromAvm(c, o, child, depth) ==
    LET prev_child == c.objs[o].children[depth]
        RemovePrev(a) ==
            IF prev_child # 0 THEN RemoveChildFromExecList(a, o, prev_child) ELSE a
        SetPlacement(a) ==
            [a EXCEPT !.objs[child].parent = o,
                      !.objs[child].place_frame = 0,
                      !.objs[child].depth = depth]
    IN  SetPlacement(
            AddChildToExecList(
                RemovePrev([c EXCEPT !.objs[o].children[depth] = child]), o, child))

\* MovieClip::remove_child_from_avm; the caller holds child.parent = o.
RemoveChildFromAvm(c, o, child) == RemoveChildAt(c, o, c.objs[child].depth)

----------------------------------------------------------------------------
(* Preload *)

Labels == {"intro", "loop"}

NoLabels == [l \in Labels |-> 0]

\* The tag callback of MovieClipData::preload; p is [cur_frame, frame_labels,
\* audio_stream_info, pos, queue], pos the reader's position before the tag
\* and queue what do_init_action has queued for the root.
PreloadTag(p, t) ==
    CASE t.code = "DoInitAction" ->
            \* MovieClipData::do_init_action: the slice starts after the sprite
            \* id and is tag_len bytes long.
            [p EXCEPT !.queue = Append(@,
                [target |-> Root, type |-> "Init", data |-> t.data,
                 start |-> p.pos + 2 + 2, end |-> p.pos + 2 + 2 + t.len,
                 is_unload |-> FALSE])]
      [] t.code = "FrameLabel" ->
            \* MovieClipData::frame_label: HashMap::insert
            [p EXCEPT !.frame_labels[t.data] = p.cur_frame]
      [] t.code = "ShowFrame" -> [p EXCEPT !.cur_frame = @ + 1]
      [] t.code = "SoundStreamHead" -> [p EXCEPT !.audio_stream_info = TRUE]
      [] t.code = "DefineFont4" ->
            \* unimplemented!(): the callback panics.
            [p EXCEPT !.panicked = TRUE]
      [] OTHER -> p

RECURSIVE PreloadTags(_, _, _, _)
PreloadTags(p, tags, i, j) ==
    IF i > j \/ p.panicked THEN p
    ELSE PreloadTags([PreloadTag(p, tags[i]) EXCEPT !.pos = @ + TagSize(tags[i])],
                     tags, i + 1, j)

\* A preload that numbers the frames from 0.
PreloadFromFrameZero(tags) ==
    PreloadTags([cur_frame |-> 0, frame_labels |-> NoLabels,
                 audio_stream_info |-> FALSE, pos |-> 0, queue |-> <<>>,
                 panicked |-> FALSE],
                tags, 1, DecodeEnd(tags, 1, "End"))

\* MovieClipData::preload: one walk over the stream up to the End tag.
Preload(tags) ==
    PreloadTags([cur_frame |-> 1, frame_labels |-> NoLabels,
                 audio_stream_info |-> FALSE, pos |-> 0, queue |-> <<>>,
                 panicked |-> FALSE],
                tags, 1, DecodeEnd(tags, 1, "End"))

----------------------------------------------------------------------------
(* Tag streams of the root clip *)

RECURSIVE FramesToTags(_)
\* The frames' tags, each frame closed by ShowFrame, the stream by End.
FramesToTags(frames) ==
    IF frames = <<>> THEN <<EndTag>>
    ELSE Head(frames) \o <<ShowFrame>> \o FramesToTags(Tail(frames))

MoviesOf(menu) ==
    {[tags |-> FramesToTags(fs), total_frames |-> Len(fs)] :
        fs \in UNION {[1..n -> menu] : n \in 1..MaxFrames}}

\* Frames that build and change the display list.
DisplayFrames ==
    {<<PlaceTag(2, 1), DoAction("a")>>,
     <<DoAction("b"), PlaceTag(1, 2)>>,
     <<RemoveTag(1)>>,
     <<ModifyTag(1, "M")>>}

\* Frames for the script-driven child list: a shape placed, a depth cleared.
ScriptFrames ==
    {<<PlaceTag(1, 1)>>,
     <<RemoveTag(1)>>}

\* Frames where a placement names a character the library does not hold.
MissingFrames ==
    {<<PlaceTag(1, 1)>>,
     <<PlaceTag(9, 1)>>,
     <<DoAction("a")>>}

\* Frames of streamed sound, on the root and inside a placed sprite.
SoundFrames ==
    {<<SoundStreamHead, SoundStreamBlock>>,
     <<SoundStreamBlock>>,
     <<PlaceTag(3, 1)>>,
     <<RemoveTag(1)>>}

\* Frames that carry frame labels.
LabelFrames ==
    {<<FrameLabel("intro")>>,
     <<FrameLabel("loop"), DoAction("a")>>,
     <<>>}

\* Frames that carry a DefineFont4 definition among labels and scripts.
FontFrames ==
    {<<DefineFont4, FrameLabel("intro")>>,
     <<FrameLabel("loop"), DoAction("a")>>,
     <<PlaceTag(1, 1)>>}

\* Frames whose placements stack at one depth: a Place, a Replace, a Modify
\* with a matrix, a Modify with a name and a background colour.
MergeFrames ==
    {<<PlaceTag(2, 1)>>,
     <<ReplaceTag(1, 1)>>,
     <<ModifyTag(1, "M")>>,
     <<[ModifyTag(1, "none") EXCEPT !.name = "n", !.background_color = "red"]>>}

\* Frames that start and stop event sounds.
StartSoundFrames ==
    {<<StartSound(7, "Start")>>,
     <<StartSound(8, "Event"), StartSound(7, "Stop")>>,
     <<StartSound(7, "Event")>>}

\* Frames for actions_on_frame: two scripts around a placed sprite, one script,
\* none.
CallFrames ==
    {<<DoAction("a"), PlaceTag(2, 1), DoAction("b")>>,
     <<DoAction("c")>>,
     <<>>}

\* Frames that place sprites carrying clip actions: a sprite with a sprite
\* inside, a sprite beside it, and the removal of the first next to an init
\* action.
EventFrames ==
    {<<PlaceWithActions(4, 1)>>,
     <<PlaceWithActions(2, 2), DoAction("a")>>,
     <<RemoveTag(1), DoInitAction("init")>>}

HashOrders == {s \in [1..Cardinality(Depths) -> Depths] :
                    \A d \in Depths : \E k \in DOMAIN s : s[k] = d}

----------------------------------------------------------------------------
(* The specification: public operations on the root clip *)

Op(name, frame, stop) == [op |-> name, frame |-> frame, stop |-> stop]

\* The context an operation starts from: the VM has drained the action queue.
Ctx0 == [Ctx EXCEPT !.queue = <<>>]

Commit(c, op) ==
    /\ Len(c.objs) <= MaxObjs
    /\ Len(c.audio.streams) <= MaxStreams
    /\ Len(c.audio.sounds) <= MaxStreams
    /\ objs' = c.objs
    /\ action_queue' = c.queue
    /\ audio' = c.audio
    /\ background_color' = c.background_color
    /\ lastOp' = op
    /\ UNCHANGED <<movie, swf_version, hash_order>>

InitWith(movies, versions) ==
    /\ movie \in movies
    /\ swf_version \in versions
    /\ hash_order \in HashOrders
    /\ static_data = [preloaded |-> FALSE, frame_labels |-> NoLabels,
                      audio_stream_info |-> FALSE]
    /\ objs = <<NewMovieClip(0)>>
    /\ action_queue = <<>>
    /\ audio = [streams |-> <<>>, sounds |-> <<>>]
    /\ background_color = "none"
    /\ lastOp = Op("new", 0, FALSE)

Init == InitWith(MoviesOf(DisplayFrames), {6})

\* The script-driven runs take the streams shorter than the longest.
InitScript ==
    InitWith({m \in MoviesOf(ScriptFrames) : m.total_frames < MaxFrames}, {6})

InitMissing == InitWith(MoviesOf(MissingFrames), {6})

InitSound == InitWith(MoviesOf(SoundFrames), {6})

InitLabels == InitWith(MoviesOf(LabelFrames), {6})

\* The format versions on either side of the two thresholds of run_clip_action.
InitEvents == InitWith(MoviesOf(EventFrames), {4, 5, 6})

InitCall == InitWith(MoviesOf(CallFrames), {6})

InitMerge == InitWith(MoviesOf(MergeFrames), {6})

InitFont == InitWith(MoviesOf(FontFrames), {6})

InitStartSound == InitWith(MoviesOf(StartSoundFrames), {6})

\* MovieClip::preload on the root, once, before the first frame.
PreloadOp ==
    /\ ~static_data.preloaded
    /\ lastOp.op # "panic"
    /\ LET p == Preload(movie.tags)
       IN  IF p.panicked
           THEN \* The panic unwinds out of preload: static_data is never stored
                \* and the player runs nothing further.
                /\ lastOp' = Op("panic", 0, FALSE)
                /\ UNCHANGED <<static_data, action_queue>>
           ELSE /\ static_data' = [preloaded |-> TRUE, frame_labels |-> p.frame_labels,
                                    audio_stream_info |-> p.audio_stream_info]
                /\ action_queue' = action_queue \o p.queue
                /\ lastOp' = Op("preload", 0, FALSE)
    /\ UNCHANGED <<movie, swf_version, hash_order, objs, audio, background_color>>

\* The walk from first_child of every clip ends: run_frame's loop over the
\* children returns.
ExecListsEnd(os) ==
    \A o \in 1..Len(os) : Len(Walk(os, os[o].first_child, Len(os) + 1)) <= Len(os)

\* One tick: run_frame on the root.
Tick ==
    /\ static_data.preloaded
    /\ ExecListsEnd(objs)
    /\ Commit(RunFrame(Ctx0, Root), Op("run_frame", 0, FALSE))
    /\ UNCHANGED static_data

GotoFrameOp ==
    /\ static_data.preloaded
    /\ \E frame \in 0..(MaxFrames + 1), stop \in BOOLEAN :
          Commit(GotoFrame(Ctx0, Root, frame, stop), Op("goto_frame", frame, stop))
    /\ UNCHANGED static_data

PlayOp ==
    /\ static_data.preloaded
    /\ Commit(Play(Ctx0, Root), Op("play", 0, FALSE))
    /\ UNCHANGED static_data

StopOp ==
    /\ static_data.preloaded
    /\ Commit(Stop(Ctx0, Root), Op("stop", 0, FALSE))
    /\ UNCHANGED static_data

NextFrameOp ==
    /\ static_data.preloaded
    /\ Commit(NextFrame(Ctx0, Root), Op("next_frame", 0, FALSE))
    /\ UNCHANGED static_data

PrevFrameOp ==
    /\ static_data.preloaded
    /\ Commit(PrevFrame(Ctx0, Root), Op("prev_frame", 0, FALSE))
    /\ UNCHANGED static_data

\* The character a script attaches: the shape.
ScriptIds == {1}

\* A script attaches a freshly instantiated character to the root.
AddChildFromScript ==
    /\ static_data.preloaded
    /\ \E id \in ScriptIds, depth \in Depths :
          Commit(AddChildFromAvm([Ctx0 EXCEPT !.objs = Append(@, Instantiate(id))],
                                 Root, Len(objs) + 1, depth),
                 Op("add_child", 0, FALSE))
    /\ UNCHANGED static_data

\* A script attaches again an object it had removed from the root.
AddRemovedChildFromScript ==
    /\ static_data.preloaded
    /\ \E child \in 1..Len(objs), depth \in Depths :
          /\ objs[child].parent = Root
          /\ objs[child].removed
          /\ Commit(AddChildFromAvm(Ctx0, Root, child, depth),
                    Op("add_child", 0, FALSE))
    /\ UNCHANGED static_data

\* A script removes an object whose parent is the root.
RemoveChildFromScript ==
    /\ static_data.preloaded
    /\ \E child \in 1..Len(objs) :
          /\ objs[child].parent = Root
          /\ Commit(RemoveChildFromAvm(Ctx0, Root, child),
                    Op("remove_child", 0, FALSE))
    /\ UNCHANGED static_data

\* The events the player hands to the root besides Load and EnterFrame.
PropagatedEvents == {"MouseDown", "KeyPress", "Unload"}

EventOp(event) ==
    [op |-> "propagate_clip_event", frame |-> 0, stop |-> FALSE, event |-> event]

\* The player delivers an event to the root: propagate_clip_event.
PropagateClipEventOp ==
    /\ static_data.preloaded
    /\ ExecListsEnd(objs)
    /\ \E event \in PropagatedEvents :
          Commit(PropagateClipEvent(Ctx0, Root, event), EventOp(event))
    /\ UNCHANGED static_data

\* The timeline operations.
\* The record of an actions_on_frame call: the clip, the frame, and the slices
\* it returned.
CallOp(o, frame, actions) ==
    [op |-> "actions_on_frame", frame |-> frame, stop |-> FALSE, clip |-> o,
     actions |-> actions]

\* The AVM's Call action: actions_on_frame on any clip, for any frame number.
ActionsOnFrameOp ==
    /\ static_data.preloaded
    /\ \E o \in {x \in 1..Len(objs) : objs[x].kind = "MovieClip"},
          frame \in 0..(MaxFrames + 1) :
            Commit(Ctx0, CallOp(o, frame, ActionsOnFrame(TagsOf(objs[o]), frame)))
    /\ UNCHANGED static_data

\* The audio backend: a playing sound instance reaches its end.
SoundEnds ==
    /\ \E k \in 1..Len(audio.sounds) :
            /\ audio.sounds[k].playing
            /\ audio' = [audio EXCEPT !.sounds[k].playing = FALSE]
    /\ action_queue' = <<>>
    /\ lastOp' = Op("sound_ends", 0, FALSE)
    /\ UNCHANGED <<movie, swf_version, hash_order, static_data, objs, background_color>>

Next ==
    \/ PreloadOp
    \/ Tick
    \/ GotoFrameOp
    \/ PlayOp
    \/ StopOp
    \/ NextFrameOp
    \/ PrevFrameOp

\* Ticks and gotos interleaved with the script's changes of the child list.
NextScript ==
    \/ PreloadOp
    \/ Tick
    \/ GotoFrameOp
    \/ AddChildFromScript
    \/ AddRemovedChildFromScript
    \/ RemoveChildFromScript

\* Ticks, gotos and stops interleaved with the events the player delivers.
NextEvents ==
    \/ PreloadOp
    \/ Tick
    \/ GotoFrameOp
    \/ PlayOp
    \/ StopOp
    \/ PropagateClipEventOp

Spec == Init /\ [][Next]_vars

SpecScript == InitScript /\ [][NextScript]_vars

SpecMissing == InitMissing /\ [][Next]_vars

SpecSound == InitSound /\ [][Next]_vars

SpecLabels == InitLabels /\ [][Next]_vars

SpecEvents == InitEvents /\ [][NextEvents]_vars

\* Ticks and gotos interleaved with the AVM's calls of actions_on_frame.
NextCall == PreloadOp \/ Tick \/ GotoFrameOp \/ ActionsOnFrameOp

SpecCall == InitCall /\ [][NextCall]_vars

SpecMerge == InitMerge /\ [][Next]_vars

SpecFont == InitFont /\ [][Next]_vars

\* Ticks and gotos interleaved with the ends of sound instances.
NextStartSound == PreloadOp \/ Tick \/ GotoFrameOp \/ SoundEnds

SpecStartSound == InitStartSound /\ [][NextStartSound]_vars

----------------------------------------------------------------------------
(* State functions the properties share *)

current_frame == objs[Root].current_frame

playing == objs[Root].playing

Clamp(frame) ==
    IF frame < 1 THEN 1
    ELSE IF frame > movie.total_frames THEN movie.total_frames ELSE frame

\* The display list of clip o: depth -> character id (0: the depth is empty).
DisplayList(os, o) ==
    [d \in Depths |-> IF os[o].children[d] = 0 THEN 0 ELSE os[os[o].children[d]].id]

\* The context of the state an operation leads to, its queue drained.
CtxNext == [objs |-> objs', queue |-> <<>>, audio |-> audio',
            background_color |-> background_color']

RECURSIVE RunFramesTo(_, _, _)
\* run_frame on clip o until it shows frame n.
RunFramesTo(c, o, n) ==
    IF c.objs[o].current_frame >= n THEN c ELSE RunFramesTo(RunFrame(c, o), o, n)

\* goto(1) followed by natural playback up to frame n.
NaturalTo(c, o, n) == RunFramesTo(GotoFrame(c, o, 1, FALSE), o, n)

----------------------------------------------------------------------------
(* Claims *)

\* The clips of an arena.
ClipObjs(os) == {o \in 1..Len(os) : os[o].kind = "MovieClip"}

\* C1: rewind fidelity.  From every state, goto_frame(n) leaves the same
\* display list (depth -> character id) as goto(1) followed by run_frame up to
\* frame n from that same state.
C1_RewindFidelity ==
    [][lastOp'.op = "goto_frame" =>
        DisplayList(objs', Root) =
            DisplayList(NaturalTo(Ctx0, Root, Clamp(lastOp'.frame)).objs, Root)]_vars

DepthMapSet(os, o) == {os[o].children[d] : d \in Depths} \ {0}

\* The objects reachable from first_child of clip o along next_sibling.
ExecListSet(os, o) == {ExecList(os, o)[k] : k \in 1..Len(ExecList(os, o))}

\* C3: after any sequence of run_frame, goto_frame, add_child_from_avm and
\* remove_child_from_avm, the objects in a clip's depth map are exactly the
\* objects on its execution list.
C3_ChildListsAgree ==
    \A o \in ClipObjs(objs) : DepthMapSet(objs, o) = ExecListSet(objs, o)

\* Frame n of a stream carries a SoundStreamBlock tag.
FrameHasStreamBlock(tags, n) ==
    \E k \in 1..Len(tags) :
        /\ tags[k].code = "SoundStreamBlock"
        /\ ShowFramesBefore(tags, k) = n - 1

\* C4: a clip holds an audio stream handle only while it is flagged Playing
\* and the frame it shows carried a SoundStreamBlock; in particular not after
\* goto_frame(n, stop = true).
C4_StreamOnlyWhilePlaying ==
    \A o \in ClipObjs(objs) :
        objs[o].audio_stream # 0 =>
            /\ objs[o].playing
            /\ FrameHasStreamBlock(TagsOf(objs[o]), objs[o].current_frame)

\* C5: a clip that was unloaded holds no audio stream, and stop_stream was
\* called on every stream it started.
C5_UnloadStopsStream ==
    \A o \in ClipObjs(objs) :
        objs[o].removed =>
            /\ objs[o].audio_stream = 0
            /\ \A h \in 1..Len(audio.streams) :
                    audio.streams[h].clip = o => audio.streams[h].stops >= 1

\* C6 as stated: on a clip of more than one frame, from every current_frame in
\* 1..total_frames, next_frame followed by prev_frame returns to that frame.
C6_NextPrevRoundTrip ==
    [][(/\ lastOp'.op = "next_frame"
        /\ movie.total_frames > 1
        /\ current_frame \in 1..movie.total_frames)
        => PrevFrame(CtxNext, Root).objs[Root].current_frame = current_frame]_vars

\* C6, amended: from every current_frame in 1..total_frames-1, next_frame
\* followed by prev_frame returns to that frame; on the last frame next_frame
\* does nothing and prev_frame then leaves the clip on frame total_frames-1.
C6_NextPrevBelowLast ==
    [][(/\ lastOp'.op = "next_frame"
        /\ movie.total_frames > 1
        /\ current_frame \in 1..movie.total_frames)
        => PrevFrame(CtxNext, Root).objs[Root].current_frame =
                IF current_frame < movie.total_frames
                THEN current_frame ELSE movie.total_frames - 1]_vars

\* C6 witness: next_frame moved the clip to a frame that is not the last one.
C6_Witness ==
    /\ lastOp.op = "next_frame"
    /\ current_frame >= 2
    /\ current_frame < movie.total_frames

\* The frame of the first FrameLabel tag that binds label l (0: never bound).
FirstLabelFrame(tags, l) ==
    IF \E k \in 1..Len(tags) : tags[k].code = "FrameLabel" /\ tags[k].data = l
    THEN 1 + ShowFramesBefore(tags,
                CHOOSE k \in 1..Len(tags) :
                    /\ tags[k].code = "FrameLabel" /\ tags[k].data = l
                    /\ \A m \in 1..(k - 1) :
                            ~(tags[m].code = "FrameLabel" /\ tags[m].data = l))
    ELSE 0

\* C7: after preload a label bound on several frames maps to the first of them.
C7_FirstLabelWins ==
    static_data.preloaded =>
        \A l \in Labels : static_data.frame_labels[l] = FirstLabelFrame(movie.tags, l)

\* C8 as stated: one run_frame takes a new single-frame clip to frame 1 and
\* stops it.
C8_SingleFrameStopsAtOnce ==
    [][(/\ lastOp'.op = "run_frame"
        /\ movie.total_frames = 1
        /\ current_frame = 0
        /\ playing)
        => (current_frame' = 1 /\ ~playing')]_vars

\* C8, amended: the run_frame of a playing single-frame clip leaves it on
\* frame 1; the first one (from frame 0) leaves it playing, the one after
\* (from frame 1) stops it.
C8_SingleFrameStopsOnSecond ==
    [][(/\ lastOp'.op = "run_frame"
        /\ movie.total_frames = 1
        /\ playing)
        => (current_frame' = 1 /\ (playing' <=> current_frame = 0))]_vars

\* C8 witness: a single-frame clip after its first run_frame, still playing.
C8_Witness ==
    /\ lastOp.op = "run_frame"
    /\ movie.total_frames = 1
    /\ current_frame = 1
    /\ playing

\* C9 as stated: in one run_frame of the root, every entry queued for a child
\* of the root precedes every entry queued for the root, the children
\* instantiated during the tick included.
C9_ChildrenFirst ==
    [][lastOp'.op = "run_frame" =>
        \A i, j \in 1..Len(action_queue') :
            (/\ action_queue'[i].target = Root
             /\ objs'[action_queue'[j].target].parent = Root) => j < i]_vars

\* C9, amended: in one run_frame of the root, the entries queued by the frames
\* of the children that were on its execution list when the tick began precede
\* every entry queued for the root; what may follow a root entry are the
\* entries of a child instantiated during the tick and the Unload entries of a
\* child removed during it.
C9_ExistingChildrenFirst ==
    [][lastOp'.op = "run_frame" =>
        \A i, j \in 1..Len(action_queue') :
            (/\ action_queue'[i].target = Root
             /\ action_queue'[j].target # Root
             /\ action_queue'[j].target <= Len(objs)
             /\ ~action_queue'[j].is_unload) => j < i]_vars

\* C9 witness: a tick queued a child's frame, then the root's event, then the
\* first frame of a child placed during the tick.
C9_Witness ==
    /\ lastOp.op = "run_frame"
    /\ \E i, j, k \in 1..Len(action_queue) :
            /\ i < j /\ j < k
            /\ action_queue[i].target # Root
            /\ action_queue[j].target = Root
            /\ action_queue[k].target > action_queue[i].target
            /\ ~action_queue[k].is_unload

\* What a queue entry is and whom it is for: the root (depth 0) or the child at
\* a depth of the root.
QueueView(os, q) ==
    [k \in 1..Len(q) |->
        [depth |-> IF q[k].target = Root THEN 0 ELSE os[q[k].target].depth,
         type |-> q[k].type, data |-> q[k].data]]

\* The queue and arena after the playhead advances one frame by itself.
AdvanceOne(stop) ==
    RunFrameInternal(IF stop THEN Stop(Ctx0, Root) ELSE Play(Ctx0, Root), Root, TRUE)

\* C10: a goto to the next frame queues the frame's DoAction entries and the
\* Load entries of the children it places in the order the playhead advancing
\* into that frame queues them.
C10_GotoQueuesInPlaybackOrder ==
    [][(/\ lastOp'.op = "goto_frame"
        /\ Clamp(lastOp'.frame) = current_frame + 1)
        => QueueView(objs', action_queue') =
                QueueView(AdvanceOne(lastOp'.stop).objs, AdvanceOne(lastOp'.stop).queue)]_vars

----------------------------------------------------------------------------
(* Gotos and the display list *)

\* The frame the k-th tag of a stream belongs to.
FrameOfTag(tags, k) == ShowFramesBefore(tags, k - 1) + 1

\* The child at depth d of the root before the step is at that depth after it,
\* the same object, and the step has not unloaded it.
Kept(d) ==
    /\ objs'[Root].children[d] = objs[Root].children[d]
    /\ objs'[objs[Root].children[d]].removed = objs[objs[Root].children[d]].removed

\* A tag of the frames from..to of the root's stream that removes depth d.
RemovedIn(d, from, to) ==
    \E k \in 1..Len(movie.tags) :
        /\ FrameOfTag(movie.tags, k) \in from..to
        /\ movie.tags[k].code = "RemoveObject2"
        /\ movie.tags[k].depth = d

\* A tag of the frames from..to of the root's stream that places a character
\* at depth d.
PlacedIn(d, from, to) ==
    \E k \in 1..Len(movie.tags) :
        /\ FrameOfTag(movie.tags, k) \in from..to
        /\ movie.tags[k].code = "PlaceObject2"
        /\ movie.tags[k].action # "Modify"
        /\ movie.tags[k].depth = d

\* C11: across a goto to frame t, forward or backward, a child of the display
\* list is kept as the same instance exactly when its place_frame is at most t.
C11_KeptIffPlacedByTarget ==
    [][(/\ lastOp'.op = "goto_frame"
        /\ Clamp(lastOp'.frame) # current_frame)
        => \A d \in Depths :
              objs[Root].children[d] # 0 =>
                  (Kept(d) <=> objs[objs[Root].children[d]].place_frame
                                    <= Clamp(lastOp'.frame))]_vars

\* C11, amended: across a rewind to frame t a child is kept as the same
\* instance exactly when its place_frame is at most t; across a forward goto
\* every child has place_frame at most t, a child whose depth the frames passed
\* over and the target frame neither remove nor place a character at is kept,
\* and a child whose depth one of those frames removes is not.
C11_KeptByGoto ==
    [][(/\ lastOp'.op = "goto_frame"
        /\ Clamp(lastOp'.frame) # current_frame)
        => \A d \in Depths :
              objs[Root].children[d] # 0 =>
                  IF Clamp(lastOp'.frame) < current_frame
                  THEN Kept(d) <=> objs[objs[Root].children[d]].place_frame
                                        <= Clamp(lastOp'.frame)
                  ELSE /\ objs[objs[Root].children[d]].place_frame
                                <= Clamp(lastOp'.frame)
                       /\ (/\ ~RemovedIn(d, current_frame + 1, Clamp(lastOp'.frame))
                           /\ ~PlacedIn(d, current_frame + 1, Clamp(lastOp'.frame)))
                            => Kept(d)
                       /\ RemovedIn(d, current_frame + 1, Clamp(lastOp'.frame))
                            => ~Kept(d)]_vars

\* A rewind has removed a child placed after the frame it went to and has kept
\* a sprite that had played past its first frame.
C11_Witness ==
    /\ lastOp.op = "goto_frame"
    /\ \E x \in 1..Len(objs) :
            /\ objs[x].parent = Root
            /\ objs[x].removed
            /\ objs[x].place_frame > current_frame
    /\ \E d \in Depths :
            /\ objs[Root].children[d] # 0
            /\ objs[objs[Root].children[d]].kind = "MovieClip"
            /\ objs[objs[Root].children[d]].current_frame > 1
            /\ objs[objs[Root].children[d]].place_frame <= current_frame

RECURSIVE FrameMatrix(_, _, _, _, _)
\* The matrix the tags of frames 1..t give the occupant of depth d, read off the
\* stream: tags k.. are still to read, cur is the matrix so far ("none": the
\* tags read so far leave the depth empty).
FrameMatrix(tags, d, t, k, cur) ==
    IF k > Len(tags) \/ FrameOfTag(tags, k) > t THEN cur
    ELSE FrameMatrix(tags, d, t, k + 1,
            CASE tags[k].code = "RemoveObject2" /\ tags[k].depth = d -> "none"
              [] tags[k].code = "PlaceObject2" /\ tags[k].depth = d ->
                    IF tags[k].action = "Place"
                    THEN OrDefault(tags[k].matrix, "identity")
                    ELSE IF cur = "none" THEN "none"
                    ELSE OrDefault(tags[k].matrix, cur)
              [] OTHER -> cur)

\* C12: across a rewind to frame t every child with place_frame <= t is kept as
\* the same instance and carries the matrix the placements of frames 1..t give
\* its depth, the identity when the Place gave none.
C12_RewindResetsKeptChildren ==
    [][(/\ lastOp'.op = "goto_frame"
        /\ Clamp(lastOp'.frame) < current_frame)
        => \A d \in Depths :
              (/\ objs[Root].children[d] # 0
               /\ objs[objs[Root].children[d]].place_frame <= Clamp(lastOp'.frame))
              => /\ Kept(d)
                 /\ objs'[objs[Root].children[d]].matrix =
                        OrDefault(FrameMatrix(movie.tags, d, Clamp(lastOp'.frame), 1, "none"),
                                  objs[objs[Root].children[d]].matrix)]_vars

\* A rewind went back over a frame that modifies the matrix of a sprite it kept:
\* the sprite had played past its first frame, the root had been on a frame at
\* or after the Modify, and the sprite carries the identity again.
C12_Witness ==
    /\ lastOp.op = "goto_frame"
    /\ \E d \in Depths, k \in 1..Len(movie.tags), x \in 1..Len(objs) :
            /\ objs[Root].children[d] # 0
            /\ objs[objs[Root].children[d]].kind = "MovieClip"
            /\ objs[objs[Root].children[d]].current_frame > 1
            /\ objs[objs[Root].children[d]].place_frame <= current_frame
            /\ objs[objs[Root].children[d]].matrix = "identity"
            /\ movie.tags[k].code = "PlaceObject2"
            /\ movie.tags[k].action = "Modify"
            /\ movie.tags[k].depth = d
            /\ movie.tags[k].matrix # "none"
            /\ FrameOfTag(movie.tags, k) > current_frame
            /\ objs[x].parent = Root
            /\ objs[x].removed
            /\ objs[x].place_frame > FrameOfTag(movie.tags, k)

\* The frames from+1..to of the root's stream place a character at depth d and
\* remove depth d on a later frame.
PlacedThenRemoved(d, from, to) ==
    \E k, r \in 1..Len(movie.tags) :
        /\ from < FrameOfTag(movie.tags, k)
        /\ FrameOfTag(movie.tags, k) < FrameOfTag(movie.tags, r)
        /\ FrameOfTag(movie.tags, r) <= to
        /\ movie.tags[k].code = "PlaceObject2"
        /\ movie.tags[k].action # "Modify"
        /\ movie.tags[k].depth = d
        /\ movie.tags[r].code = "RemoveObject2"
        /\ movie.tags[r].depth = d

\* The last tag of the frames ..to of the root's stream that places a character
\* at depth d or removes it is a placement.
LastPlaces(d, to) ==
    \E k \in 1..Len(movie.tags) :
        /\ FrameOfTag(movie.tags, k) <= to
        /\ movie.tags[k].code = "PlaceObject2"
        /\ movie.tags[k].action # "Modify"
        /\ movie.tags[k].depth = d
        /\ \A r \in (k + 1)..Len(movie.tags) :
              ~ /\ FrameOfTag(movie.tags, r) <= to
                /\ movie.tags[r].code = "RemoveObject2"
                /\ movie.tags[r].depth = d

\* The objects the step has instantiated at depth d of the root.
InstantiatedAt(d) ==
    {x \in (Len(objs) + 1)..Len(objs') :
        objs'[x].parent = Root /\ objs'[x].depth = d}

\* C13: a forward goto over a frame that places a character at a depth and a
\* later frame, up to the target, that removes the depth instantiates nothing
\* at the depth, queues nothing for it and leaves the depth empty.
C13_SkipsPlacedThenRemoved ==
    [][(/\ lastOp'.op = "goto_frame"
        /\ Clamp(lastOp'.frame) > current_frame)
        => \A d \in Depths :
              PlacedThenRemoved(d, current_frame, Clamp(lastOp'.frame))
              => /\ InstantiatedAt(d) = {}
                 /\ objs'[Root].children[d] = 0]_vars

\* C13, amended: such a goto never instantiates the character placed before
\* the removal; the depth is empty after the goto unless a frame after the
\* removal, up to the target, places a character there again, and then that
\* one character is the only one instantiated at the depth.
C13_SkipsPlacedThenRemovedUnlessPlacedAgain ==
    [][(/\ lastOp'.op = "goto_frame"
        /\ Clamp(lastOp'.frame) > current_frame)
        => \A d \in Depths :
              PlacedThenRemoved(d, current_frame, Clamp(lastOp'.frame))
              => IF LastPlaces(d, Clamp(lastOp'.frame))
                 THEN /\ Cardinality(InstantiatedAt(d)) = 1
                      /\ objs'[Root].children[d] \in InstantiatedAt(d)
                      /\ \A k \in 1..Len(action_queue') :
                            action_queue'[k].target \in InstantiatedAt(d)
                                => ~action_queue'[k].is_unload
                 ELSE /\ InstantiatedAt(d) = {}
                      /\ objs'[Root].children[d] = 0]_vars

\* A goto has gone past a placement and the later removal of its depth, and
\* the arena holds no object that was ever at that depth.
C13_Witness ==
    /\ lastOp.op = "goto_frame"
    /\ \E d \in Depths :
            /\ PlacedThenRemoved(d, 0, current_frame)
            /\ ~LastPlaces(d, current_frame)
            /\ objs[Root].children[d] = 0
            /\ \A x \in 1..Len(objs) : objs[x].parent = Root => objs[x].depth # d

----------------------------------------------------------------------------
(* Looping *)

\* The display list a new root clip shows on its first frame.
FirstFrameList ==
    DisplayList(RunFrame([objs |-> <<NewMovieClip(0)>>, queue |-> <<>>,
                          audio |-> [streams |-> <<>>, sounds |-> <<>>],
                          background_color |-> "none"], Root).objs, Root)

\* C14: on a playing clip of more than one frame run_frame moves current_frame
\* to the next frame and from the last frame to frame 1; at the wrap the clip
\* stays playing, every child placed by frame 1 is kept as the same instance,
\* and the display list is that of the first showing of frame 1.
C14_Looping ==
    [][(/\ lastOp'.op = "run_frame"
        /\ playing
        /\ movie.total_frames > 1)
        => /\ current_frame' = IF current_frame = movie.total_frames
                               THEN 1 ELSE current_frame + 1
           /\ current_frame = movie.total_frames
                => /\ playing'
                   /\ \A d \in Depths :
                        (/\ objs[Root].children[d] # 0
                         /\ objs[objs[Root].children[d]].place_frame <= 1)
                        => Kept(d)
                   /\ DisplayList(objs', Root) = FirstFrameList]_vars

\* The playing root has wrapped to frame 1: the tick removed a child placed on
\* a later frame and kept a sprite that is on its second frame.
C14_Witness ==
    /\ lastOp.op = "run_frame"
    /\ playing
    /\ current_frame = 1
    /\ movie.total_frames > 1
    /\ \E x \in 1..Len(objs) :
            /\ objs[x].parent = Root
            /\ objs[x].removed
            /\ objs[x].place_frame > 1
    /\ \E d \in Depths :
            /\ objs[Root].children[d] # 0
            /\ objs[objs[Root].children[d]].kind = "MovieClip"
            /\ objs[objs[Root].children[d]].place_frame = 1
            /\ objs[objs[Root].children[d]].current_frame = 2

----------------------------------------------------------------------------
(* What a goto runs *)

RECURSIVE FrameActions(_, _, _)
\* The queue entries of the DoAction tags of frame n of the root's stream, in
\* tag order, from tag k on.
FrameActions(tags, n, k) ==
    IF k > Len(tags) THEN <<>>
    ELSE (IF tags[k].code = "DoAction" /\ FrameOfTag(tags, k) = n
          THEN <<[target |-> Root, type |-> "Normal", data |-> tags[k].data,
                  start |-> ReaderPos(tags, k) + 2,
                  end |-> ReaderPos(tags, k) + 2 + tags[k].len,
                  is_unload |-> FALSE]>>
          ELSE <<>>) \o FrameActions(tags, n, k + 1)

\* The entries of a queue that are for the root itself.
OwnEntries(q) == SelectSeq(q, LAMBDA e : e.target = Root)

\* The stream handles a clip has started so far.
StreamsOf(a, o) == {h \in 1..Len(a.streams) : a.streams[h].clip = o}

----------------------------------------------------------------------------
(* Streamed sound and completed frames *)

\* C16: a clip whose stream is active and that completes a frame without a
\* SoundStreamBlock has stop_stream called once on the handle and its
\* audio_stream cleared; after the step a clip holds a handle only if the
\* frame it is on carries a SoundStreamBlock.
C16_UnfedStreamStopped ==
    [][lastOp'.op \in {"run_frame", "goto_frame", "next_frame", "prev_frame"} =>
        /\ \A o \in ClipObjs(objs) :
              (/\ objs[o].audio_stream # 0
               /\ ~FrameHasStreamBlock(TagsOf(objs[o]), objs'[o].current_frame))
              => /\ objs'[o].audio_stream = 0
                 /\ audio'.streams[objs[o].audio_stream].stops =
                        audio.streams[objs[o].audio_stream].stops + 1
        /\ \A o \in ClipObjs(objs') :
              objs'[o].audio_stream # 0
                => FrameHasStreamBlock(TagsOf(objs'[o]), objs'[o].current_frame)]_vars

\* The playing root has advanced from a frame with a SoundStreamBlock onto one
\* without: its stream has been stopped and it holds no handle.
C16_Witness ==
    /\ lastOp.op = "run_frame"
    /\ playing
    /\ current_frame > 1
    /\ FrameHasStreamBlock(movie.tags, current_frame - 1)
    /\ ~FrameHasStreamBlock(movie.tags, current_frame)
    /\ objs[Root].audio_stream = 0
    /\ StreamsOf(audio, Root) # {}
    /\ \A h \in StreamsOf(audio, Root) : audio.streams[h].stops = 1

----------------------------------------------------------------------------
(* Placement bookkeeping *)

\* C17: every child in the depth map of a clip has that clip as its parent and
\* a place_frame no later than the frame the clip is on.
C17_ChildrenPlacedByCurrentFrame ==
    \A o \in ClipObjs(objs) : \A d \in Depths :
        objs[o].children[d] # 0
            => /\ objs[objs[o].children[d]].parent = o
               /\ objs[objs[o].children[d]].place_frame <= objs[o].current_frame

\* After a goto the root holds a child a script attached (place_frame 0) next
\* to one its tags placed.
C17_Witness ==
    /\ lastOp.op = "goto_frame"
    /\ \E d, e \in Depths :
            /\ objs[Root].children[d] # 0
            /\ objs[objs[Root].children[d]].place_frame = 0
            /\ objs[Root].children[e] # 0
            /\ objs[objs[Root].children[e]].place_frame = current_frame
            /\ current_frame > 0

----------------------------------------------------------------------------
(* The saved reader position *)

\* The byte offsets just past the ShowFrame tags of a stream.
FrameEnds(tags) ==
    {OffsetAfter(tags, k) : k \in {i \in 1..Len(tags) : tags[i].code = "ShowFrame"}}

\* C18: after run_frame and after goto_frame the tag_stream_pos of every clip
\* is 0 or the offset just past a ShowFrame tag of the clip's stream.
C18_PosAtFrameEnd ==
    lastOp.op \in {"run_frame", "goto_frame"} =>
        \A o \in ClipObjs(objs) :
            objs[o].tag_stream_pos \in {0} \cup FrameEnds(TagsOf(objs[o]))

----------------------------------------------------------------------------
(* Seeking *)

----------------------------------------------------------------------------
(* Frame labels *)

\* MovieClip::frame_label_to_number: the map's entry for the label; 0 stands
\* for None (a recorded frame number is at least 1).
frame_label_to_number(frame_label) ==
    IF frame_label \in DOMAIN static_data.frame_labels
    THEN static_data.frame_labels[frame_label]
    ELSE 0

\* The FrameLabel tags of a stream that carry label l.
LabelTags(tags, l) ==
    {k \in 1..Len(tags) : tags[k].code = "FrameLabel" /\ tags[k].data = l}

\* C20: after preload frame_label_to_number of a label some FrameLabel tag
\* carries is the frame of such a tag, one more than the ShowFrame tags before
\* it, and frame_label_to_number of any other label is None.
C20_LabelResolvesToItsFrame ==
    static_data.preloaded =>
        \A l \in Labels \cup {"end"} :
            IF LabelTags(movie.tags, l) = {}
            THEN frame_label_to_number(l) = 0
            ELSE \E k \in LabelTags(movie.tags, l) :
                    frame_label_to_number(l) = 1 + ShowFramesBefore(movie.tags, k)

\* Preload has recorded a label of the second frame and none for a label the
\* stream does not carry.
C20_Witness ==
    /\ static_data.preloaded
    /\ frame_label_to_number("loop") = 2
    /\ LabelTags(movie.tags, "intro") = {}
    /\ frame_label_to_number("intro") = 0

----------------------------------------------------------------------------
(* Goto idempotence *)

\* The display-list state of the root in an arena: current_frame,
\* tag_stream_pos, the children by depth and the place_frame of each.
DisplayState(os) ==
    [current_frame |-> os[Root].current_frame,
     tag_stream_pos |-> os[Root].tag_stream_pos,
     children |-> os[Root].children,
     place_frames |-> [d \in Depths |->
                          IF os[Root].children[d] = 0 THEN 0
                          ELSE os[os[Root].children[d]].place_frame],
     objects |-> Len(os)]

\* C21: goto_frame(n) called again right after goto_frame(n), with either
\* value of stop, leaves the display-list state of the first call and queues
\* nothing.
C21_GotoIdempotent ==
    [][lastOp'.op = "goto_frame" =>
        \A stop \in BOOLEAN :
            /\ DisplayState(GotoFrame(CtxNext, Root, lastOp'.frame, stop).objs)
                    = DisplayState(objs')
            /\ GotoFrame(CtxNext, Root, lastOp'.frame, stop).queue = <<>>]_vars

\* A goto has instantiated a sprite on the way to a frame past the first and
\* queued its Load: the state a second goto to the same frame starts from.
C21_Witness ==
    /\ lastOp.op = "goto_frame"
    /\ current_frame > 1
    /\ current_frame = Clamp(lastOp.frame)
    /\ \E d \in Depths, e \in 1..Len(action_queue) :
            /\ objs[Root].children[d] # 0
            /\ action_queue[e].target = objs[Root].children[d]
            /\ action_queue[e].data = "onLoad"

----------------------------------------------------------------------------
(* Clip events *)

\* swf::ClipEvent
ClipEvents ==
    {"Construct", "Data", "DragOut", "DragOver", "EnterFrame", "Initialize",
     "KeyDown", "KeyPress", "KeyUp", "Load", "MouseDown", "MouseMove", "MouseUp",
     "Press", "RollOut", "RollOver", "Release", "ReleaseOutside", "Unload"}

\* The positions of a clip-action table whose events contain e.
Handling(table, e) == {i \in 1..Len(table) : e \in table[i].events}

\* q holds, from position 1, the actions of the table entries that handle e, as
\* Normal actions in table order, and then a Method action if wanted, and
\* nothing else.
IsDispatchOf(q, table, e, wants_method) ==
    /\ Len(q) = Cardinality(Handling(table, e)) + (IF wants_method THEN 1 ELSE 0)
    /\ \A i \in Handling(table, e) :
            /\ q[Cardinality({j \in Handling(table, e) : j <= i})].type = "Normal"
            /\ q[Cardinality({j \in Handling(table, e) : j <= i})].data
                    = table[i].action_data
    /\ wants_method =>
            /\ q[Len(q)].type = "Method"
            /\ q[Len(q)].data # ""
            /\ e = "Load" => q[Len(q)].data = "onLoad"
            /\ e = "Unload" => q[Len(q)].data = "onUnload"
            /\ e = "EnterFrame" => q[Len(q)].data = "onEnterFrame"

\* C22: run_clip_action of any clip and event queues nothing below version 5;
\* from version 5 the clip's actions for the event as Normal actions in table
\* order; from version 6 one Method action after them, except for Construct,
\* Initialize and KeyPress.
C22_DispatchGatedByVersion ==
    \A o \in ClipObjs(objs) : \A e \in ClipEvents :
        IF swf_version < 5
        THEN RunClipAction(Ctx0, o, e).queue = <<>>
        ELSE IsDispatchOf(RunClipAction(Ctx0, o, e).queue, objs[o].clip_actions, e,
                          /\ swf_version >= 6
                          /\ e \notin {"Construct", "Initialize", "KeyPress"})

\* Under version 6 a MouseDown delivered to the root has queued, for a sprite
\* placed with clip actions, its two MouseDown actions and then onMouseDown.
C22_Witness ==
    /\ lastOp.op = "propagate_clip_event"
    /\ lastOp.event = "MouseDown"
    /\ swf_version = 6
    /\ \E k \in 1..Len(action_queue) :
            /\ k + 2 <= Len(action_queue)
            /\ action_queue[k].data = "on_unload_down"
            /\ action_queue[k + 1].data = "on_enter_unload_down"
            /\ action_queue[k + 2].data = "onMouseDown"
            /\ action_queue[k + 2].type = "Method"
            /\ action_queue[k + 1].target = action_queue[k].target
            /\ action_queue[k + 2].target = action_queue[k].target

\* The bytecode of the entries of the clip-action tables of an arena.
ClipActionData(os) ==
    UNION {{os[o].clip_actions[i].action_data : i \in 1..Len(os[o].clip_actions)} :
                o \in ClipObjs(os)}

\* C23: what run_clip_action queues for an event is flagged is_unload exactly
\* when the event is Unload, on any clip and for the events the player
\* delivers; the DoAction and DoInitAction blocks in the queue are never
\* flagged, and a queued method handler is flagged exactly when it is onUnload.
C23_UnloadFlag ==
    /\ \A o \in ClipObjs(objs) : \A e \in ClipEvents :
            \A k \in 1..Len(RunClipAction(Ctx0, o, e).queue) :
                RunClipAction(Ctx0, o, e).queue[k].is_unload = (e = "Unload")
    /\ lastOp.op = "propagate_clip_event" =>
            \A k \in 1..Len(action_queue) :
                action_queue[k].is_unload = (lastOp.event = "Unload")
    /\ \A k \in 1..Len(action_queue) :
            /\ action_queue[k].type = "Init" => ~action_queue[k].is_unload
            /\ (/\ action_queue[k].type = "Normal"
                /\ action_queue[k].data \notin ClipActionData(objs))
                    => ~action_queue[k].is_unload
            /\ action_queue[k].type = "Method" =>
                    (action_queue[k].is_unload <=> action_queue[k].data = "onUnload")

\* A tick has removed a sprite placed with clip actions: its Unload action is
\* queued flagged, next to an unflagged onEnterFrame.
C23_Witness ==
    /\ lastOp.op = "run_frame"
    /\ \E k, m \in 1..Len(action_queue) :
            /\ action_queue[k].data = "on_unload_down"
            /\ action_queue[k].is_unload
            /\ action_queue[m].data = "onEnterFrame"
            /\ ~action_queue[m].is_unload

RECURSIVE Running(_, _), RunningOf(_, _)

\* The clips run_frame on o reaches: o and, through the execution lists, its
\* descendants.
Running(os, o) ==
    IF os[o].kind # "MovieClip" THEN {} ELSE {o} \cup RunningOf(os, ExecList(os, o))

RunningOf(os, list) ==
    IF list = <<>> THEN {} ELSE Running(os, Head(list)) \cup RunningOf(os, Tail(list))

\* The queued actions of clip events other than Unload on o: the method
\* handlers and the actions of o's clip-action table.
ClipEventEntries(q, os, o) ==
    SelectSeq(q, LAMBDA a :
        /\ a.target = o
        /\ ~a.is_unload
        /\ \/ a.type = "Method"
           \/ /\ a.type = "Normal"
              /\ \E i \in 1..Len(os[o].clip_actions) :
                    a.data = os[o].clip_actions[i].action_data)

\* What run_clip_action queues for event e on o.
Dispatched(os, o, e) == RunClipAction([Ctx0 EXCEPT !.objs = os], o, e).queue

\* C24: a tick dispatches to every clip it runs exactly Load when the clip was
\* not initialized (or was instantiated in the tick) and sets Initialized, and
\* exactly EnterFrame when it was, playing or not; Initialized is never
\* cleared, so Load comes once and first; a goto dispatches Load to the clips it
\* instantiates and nothing to the others; a stopped clip keeps current_frame
\* and tag_stream_pos through a tick.
C24_LoadOnceThenEnterFrame ==
    [][/\ \A o \in ClipObjs(objs) : objs[o].initialized => objs'[o].initialized
       /\ lastOp'.op \in {"run_frame", "goto_frame", "play", "stop"} =>
            \A o \in ClipObjs(objs') :
                IF o > Len(objs) \/
                   (lastOp'.op = "run_frame" /\ o \in Running(objs, Root)
                        /\ ~objs[o].initialized)
                THEN /\ ClipEventEntries(action_queue', objs', o)
                            = Dispatched(objs', o, "Load")
                     /\ objs'[o].initialized
                ELSE IF lastOp'.op = "run_frame" /\ o \in Running(objs, Root)
                THEN /\ ClipEventEntries(action_queue', objs', o)
                            = Dispatched(objs', o, "EnterFrame")
                     /\ ~objs[o].playing =>
                            /\ objs'[o].current_frame = objs[o].current_frame
                            /\ objs'[o].tag_stream_pos = objs[o].tag_stream_pos
                ELSE /\ ClipEventEntries(action_queue', objs', o) = <<>>
                     /\ objs'[o].initialized = objs[o].initialized]_vars

\* A tick on a stopped, initialized root with a child sprite that carries clip
\* actions: both got EnterFrame, and the root stayed on its frame.
C24_Witness ==
    /\ lastOp.op = "run_frame"
    /\ swf_version >= 5
    /\ ~playing
    /\ current_frame > 1
    /\ \E o \in ClipObjs(objs) \ {Root} : \E k, m \in 1..Len(action_queue) :
            /\ k < m
            /\ action_queue[k].target = o
            /\ action_queue[k].data = "on_enter_unload_down"
            /\ ~action_queue[k].is_unload
            /\ action_queue[m].target = Root
            /\ action_queue[m].data = "onEnterFrame"

\* The positions of q whose action targets o.
PositionsOf(q, o) == {k \in 1..Len(q) : q[k].target = o}

\* C25: propagate_clip_event(e) on the root queues, for every clip of the
\* subtree, exactly what run_clip_action queues for e on that clip, once, after
\* the actions of all of the clip's descendants, and nothing for any other
\* object.
C25_DepthFirst ==
    [][lastOp'.op = "propagate_clip_event" =>
        /\ \A k \in 1..Len(action_queue') :
                action_queue'[k].target \in Running(objs, Root)
        /\ \A o \in Running(objs, Root) :
                /\ SelectSeq(action_queue', LAMBDA a : a.target = o)
                        = Dispatched(objs, o, lastOp'.event)
                /\ \A d \in Running(objs, o) \ {o} :
                        \A k \in PositionsOf(action_queue', d) :
                            \A m \in PositionsOf(action_queue', o) : k < m]_vars

\* MouseDown has gone through a root that holds a sprite with clip actions
\* that holds a sprite: the three handled it, innermost first.
C25_Witness ==
    /\ lastOp.op = "propagate_clip_event"
    /\ lastOp.event = "MouseDown"
    /\ \E o, d \in ClipObjs(objs) :
            /\ o \in Running(objs, Root) \ {Root}
            /\ d \in Running(objs, o) \ {o}
            /\ \E k, m, n \in 1..Len(action_queue) :
                    /\ k < m /\ m < n
                    /\ action_queue[k].target = d
                    /\ action_queue[m].target = o
                    /\ action_queue[m].data = "on_unload_down"
                    /\ action_queue[n].target = Root

RECURSIVE FrameBodies(_, _, _)
\* The bodies of the DoAction tags from tag k on that lie after n - 1 ShowFrame
\* tags and before the n-th, as slices of the stream, in stream order.
FrameBodies(tags, n, k) ==
    IF k > Len(tags) THEN <<>>
    ELSE (IF tags[k].code = "DoAction" /\ ShowFramesBefore(tags, k) = n - 1
          THEN <<[data |-> tags[k].data,
                  start |-> OffsetAfter(tags, k) - tags[k].len,
                  end |-> OffsetAfter(tags, k)]>>
          ELSE <<>>) \o FrameBodies(tags, n, k + 1)

RECURSIVE StartSoundsOfFrame(_, _, _)
StartSoundsOfFrame(tags, n, k) ==
    IF k > Len(tags) THEN <<>>
    ELSE (IF tags[k].code = "StartSound" /\ FrameOfTag(tags, k) = n
          THEN <<tags[k]>> ELSE <<>>) \o StartSoundsOfFrame(tags, n, k + 1)

\* The instances of sound handle h that play.
PlayingInstances(snds, h) ==
    {k \in 1..Len(snds) : snds[k].handle = h /\ snds[k].playing}

\* What the instances snds become when a StartSound tag for a registered sound
\* is met: Event adds a playing instance, Start adds one unless one of the
\* handle plays, Stop leaves none of the handle playing and adds none.
SoundsAfter(snds, t) ==
    CASE t.event = "Event" -> Append(snds, [handle |-> t.id, playing |-> TRUE])
      [] t.event = "Start" ->
            IF PlayingInstances(snds, t.id) = {}
            THEN Append(snds, [handle |-> t.id, playing |-> TRUE])
            ELSE snds
      [] t.event = "Stop" ->
            [k \in 1..Len(snds) |->
                [handle |-> snds[k].handle,
                 playing |-> snds[k].playing /\ snds[k].handle # t.id]]

RECURSIVE SoundsAfterAll(_, _)
SoundsAfterAll(snds, ts) ==
    IF ts = <<>> THEN snds
    ELSE SoundsAfterAll(SoundsAfter(snds, Head(ts)), Tail(ts))

\* The step ran the tags of the frame the root ends on: a tick of a playing
\* root that is not a single-frame clip at rest, or a goto to another frame.
RanFrameTags ==
    \/ /\ lastOp'.op = "run_frame"
       /\ objs[Root].playing
       /\ ~(objs[Root].current_frame = 1 /\ total_frames(objs[Root]) = 1)
    \/ /\ lastOp'.op = "goto_frame"
       /\ Clamp(lastOp'.frame) # objs[Root].current_frame

\* C27: a tick or goto changes the sound instances as the StartSound tags of
\* the frame it runs say, in tag order: Event starts an instance, Start starts
\* one only when no instance of the handle plays, Stop stops the instances of
\* the handle and starts none; a step that runs no frame leaves them alone.
C27_StartSound ==
    [][lastOp'.op \in {"run_frame", "goto_frame"} =>
        audio'.sounds =
            IF RanFrameTags
            THEN SoundsAfterAll(audio.sounds,
                    StartSoundsOfFrame(movie.tags, objs'[Root].current_frame, 1))
            ELSE audio.sounds]_vars

\* The root met Start for sound 7 on frame 1 and again on frame 2 while the
\* first instance played: one instance was started, not two.
C27_Witness ==
    /\ lastOp.op = "run_frame"
    /\ current_frame = 2
    /\ StartSoundsOfFrame(movie.tags, 1, 1) = <<StartSound(7, "Start")>>
    /\ StartSoundsOfFrame(movie.tags, 2, 1) = <<StartSound(7, "Start")>>
    /\ audio.sounds = <<[handle |-> 7, playing |-> TRUE]>>

\* C28 as stated: run_frame_internal on a clip with current_frame =
\* total_frames = 1 stops the clip and leaves tag_stream_pos, the display
\* list, the background colour and the action queue as they were.
C28_SingleFrameReturnsAtOnce ==
    \A o \in ClipObjs(objs) :
        (objs[o].current_frame = 1 /\ total_frames(objs[o]) = 1) =>
            /\ ~RunFrameInternal(Ctx0, o, TRUE).objs[o].playing
            /\ RunFrameInternal(Ctx0, o, TRUE).objs[o].tag_stream_pos
                    = objs[o].tag_stream_pos
            /\ RunFrameInternal(Ctx0, o, TRUE).objs[o].children = objs[o].children
            /\ RunFrameInternal(Ctx0, o, TRUE).background_color = background_color
            /\ RunFrameInternal(Ctx0, o, TRUE).queue = <<>>

\* The objects the step instantiated as children of the root.
NewChildren == {x \in (Len(objs) + 1)..Len(objs') : objs'[x].parent = Root}

\* C29: in a goto of the root to another frame t, the actions queued by the
\* first frame of a child instantiated by a command of a frame before t come
\* before the actions the replay of frame t queues for the root, and those of
\* a child instantiated by a command of frame t or later come after them; the
\* replay queues the DoAction blocks of frame t once; no depth is instantiated
\* twice, and every child instantiated is the one at its depth after the goto.
C29_PhaseCOrder ==
    [][(/\ lastOp'.op = "goto_frame"
        /\ Clamp(lastOp'.frame) # objs[Root].current_frame) =>
        /\ OwnEntries(action_queue')
                = FrameActions(movie.tags, Clamp(lastOp'.frame), 1)
        /\ \A x \in NewChildren :
                /\ objs'[Root].children[objs'[x].depth] = x
                /\ \A k \in PositionsOf(action_queue', x) :
                        \A m \in PositionsOf(action_queue', Root) :
                            IF objs'[x].place_frame < Clamp(lastOp'.frame)
                            THEN k < m ELSE m < k]_vars

\* A goto placed a sprite from a command of a frame before the target: the
\* sprite's Load and first script are queued before the root's script of the
\* target frame.
C29_Witness ==
    /\ lastOp.op = "goto_frame"
    /\ current_frame = Clamp(lastOp.frame)
    /\ \E x \in ClipObjs(objs) \ {Root} : \E k, l, m \in 1..Len(action_queue) :
            /\ objs[x].place_frame < current_frame
            /\ k < l /\ l < m
            /\ action_queue[k].target = x
            /\ action_queue[k].data = "onLoad"
            /\ action_queue[l].target = x
            /\ action_queue[l].data = "sprite_f1"
            /\ action_queue[m].target = Root
            /\ action_queue[m].data = "b"

\* The Option fields of swf::PlaceObject that GotoPlaceObject carries.
OptionalFields ==
    {"matrix", "color_transform", "ratio", "name", "clip_depth", "class_name",
     "background_color"}

\* The PlaceObject tags of a stream.
PlaceObjectTags(tags) == {tags[k] : k \in {i \in 1..Len(tags) : tags[i].code = "PlaceObject2"}}

\* C30 as stated: GotoPlaceObject::new of a Place during a rewind holds a value
\* for every optional field, the tag's own where the tag has one; otherwise it
\* holds the tag as read.
C30_RewindPlaceFillsEveryField ==
    \A t \in PlaceObjectTags(movie.tags) : \A is_rewind \in BOOLEAN :
        IF is_rewind /\ t.action = "Place"
        THEN \A f \in OptionalFields :
                /\ GotoPlaceObjectNew(1, t, is_rewind).place_object[f] # "none"
                /\ t[f] # "none" =>
                        GotoPlaceObjectNew(1, t, is_rewind).place_object[f] = t[f]
        ELSE GotoPlaceObjectNew(1, t, is_rewind).place_object = t

\* The place-object deltas of the root's stream in stream order, as
\* goto_place_object builds them.
Deltas(is_rewind) ==
    LET ks == SelectSeq([k \in 1..Len(movie.tags) |-> k],
                        LAMBDA k : movie.tags[k].code = "PlaceObject2")
    IN  [n \in 1..Len(ks) |->
            GotoPlaceObjectNew(FrameOfTag(movie.tags, ks[n]), movie.tags[ks[n]], is_rewind)]

RECURSIVE MergeAll(_, _, _)
\* The deltas ds[i..j] merged one after the other into the first.
MergeAll(ds, i, j) ==
    IF i = j THEN ds[i] ELSE Merge(MergeAll(ds, i, j - 1), ds[j])

\* The last of the deltas ds[i..j] that satisfies P, i when none does.
LastWith(ds, i, j, P(_)) ==
    IF \E k \in i..j : P(ds[k])
    THEN CHOOSE k \in i..j : P(ds[k]) /\ \A l \in (k + 1)..j : ~P(ds[l])
    ELSE i

\* C31: the merge of a run of deltas has the action, id and frame of the last
\* delta that is not a Modify (of the first when there is none after it) and,
\* for every optional field, the value of the last delta that carries one;
\* merge is associative (for the deltas of every stream, looked at when the
\* stream is preloaded); a goto of a new clip builds the child the merged
\* deltas of the frames up to the target describe.
C31_MergeKeepsLast ==
    [][/\ lastOp'.op = "preload" => \A is_rewind \in BOOLEAN :
            LET ds == Deltas(is_rewind)
            IN  /\ \A i \in 1..Len(ds) : \A j \in i..Len(ds) :
                    LET m == MergeAll(ds, i, j)
                        a == LastWith(ds, i + 1, j, LAMBDA x : x.place_object.action # "Modify")
                        la == IF a \in (i + 1)..j /\ ds[a].place_object.action # "Modify"
                              THEN a ELSE i
                    IN  /\ m.place_object.action = ds[la].place_object.action
                        /\ m.place_object.id = ds[la].place_object.id
                        /\ m.frame = ds[la].frame
                        /\ \A f \in OptionalFields :
                              m.place_object[f] =
                                ds[LastWith(ds, i, j,
                                     LAMBDA x : x.place_object[f] # "none")].place_object[f]
                /\ \A a, b, c \in {ds[k] : k \in 1..Len(ds)} :
                        Merge(Merge(a, b), c) = Merge(a, Merge(b, c))
       /\ (/\ lastOp'.op = "goto_frame"
           /\ objs[Root].current_frame = 0
           /\ Len(objs) = 1) =>
            LET ds == Deltas(FALSE)
                n == Cardinality({k \in 1..Len(ds) : ds[k].frame <= Clamp(lastOp'.frame)})
                m == MergeAll(ds, 1, n)
                x == objs'[Root].children[1]
            IN  IF m.place_object.action = "Modify" THEN x = 0
                ELSE /\ x # 0
                     /\ objs'[x].id = m.place_object.id
                     /\ objs'[x].place_frame = m.frame
                     /\ objs'[x].matrix = OrDefault(m.place_object.matrix, "identity")]_vars

\* A goto of a new clip to frame 3 over Place, Modify with a matrix, Replace:
\* the child is the replacing character, placed on frame 3, with the matrix of
\* the Modify.
C31_Witness ==
    /\ lastOp.op = "goto_frame"
    /\ Len(objs) = 2
    /\ current_frame = 3
    /\ Deltas(FALSE)[1].place_object.action = "Place"
    /\ Deltas(FALSE)[2].place_object.matrix = "M"
    /\ Deltas(FALSE)[3].place_object.action = "Replace"
    /\ objs[Root].children[1] = 2
    /\ objs[2].id = 1
    /\ objs[2].place_frame = 3
    /\ objs[2].matrix = "M"

\* Stacked placements at both depths, as an aggregation may hold them when it
\* meets a RemoveObject.
BothStacked(is_rewind) ==
    GotoPlaceObject(GotoPlaceObject(NoCommands, 1, PlaceTag(2, 1), is_rewind),
                    1, PlaceTag(1, 2), is_rewind)

----------------------------------------------------------------------------
(* C33: a Place tag met in natural playback *)

\* C33: in every state, a Place(id) tag at depth d handled in natural playback
\* instantiates a new child with parent the clip, depth d and place_frame the
\* clip's current frame, makes it the head of the exec list in front of the
\* children already listed, takes the previous occupant of d out of the depth
\* map and the exec list and unloads it, and has run the child's first frame
\* (Load event, frame 1 decoded) before the next tag of the frame is handled.
C33_NaturalPlace ==
    \A d \in Depths : \A id \in DOMAIN Library :
        LET r == PlaceObject(Ctx0, Root, PlaceTag(id, d))
            child == Len(objs) + 1
            x == objs[Root].children[d]
            unl == IF x # 0 /\ objs[x].kind = "MovieClip"
                   THEN Dispatched(objs, x, "Unload") ELSE <<>>
            seq == RunTags(Ctx0, Root, <<PlaceTag(id, d), DoAction("z")>>, 1, 2, TRUE)
            first == SubSeq(r.queue, Len(unl) + 1, Len(r.queue))
        IN  /\ Len(r.objs) >= child
            /\ r.objs[child].id = id
            /\ r.objs[child].parent = Root
            /\ r.objs[child].depth = d
            /\ r.objs[child].place_frame = objs[Root].current_frame
            /\ ~r.objs[child].removed
            /\ r.objs[Root].children[d] = child
            /\ \A e \in Depths \ {d} : r.objs[Root].children[e] = objs[Root].children[e]
            /\ r.objs[Root].first_child = child
            /\ r.objs[child].prev_sibling = 0
            /\ ExecList(r.objs, Root) =
                    <<child>> \o SelectSeq(ExecList(objs, Root), LAMBDA y : y # x)
            /\ x # 0 =>
                    /\ r.objs[x].removed
                    /\ x \notin ExecListSet(r.objs, Root)
                    /\ x \notin DepthMapSet(r.objs, Root)
            /\ Len(r.queue) >= Len(unl)
            /\ SubSeq(r.queue, 1, Len(unl)) = unl
            /\ \A k \in 1..Len(first) : first[k].target >= child
            /\ Library[id].kind = "MovieClip" =>
                    /\ r.objs[child].initialized
                    /\ r.objs[child].current_frame = 1
                    /\ \E k \in 1..Len(first) :
                            first[k].target = child /\ first[k].data = "onLoad"
            /\ id = 2 =>
                    \E k \in 1..Len(first) :
                        first[k].target = child /\ first[k].data = "sprite_f1"
            /\ id = 4 =>
                    /\ r.objs[child].children[1] = child + 1
                    /\ r.objs[child + 1].parent = child
                    /\ r.objs[child + 1].current_frame = 1
            /\ seq.objs = r.objs
            /\ Len(seq.queue) = Len(r.queue) + 1
            /\ SubSeq(seq.queue, 1, Len(r.queue)) = r.queue
            /\ seq.queue[Len(seq.queue)].target = Root
            /\ seq.queue[Len(seq.queue)].data = "z"

----------------------------------------------------------------------------
(* C34: placements of a character the library does not hold *)

\* The Place / Replace tags of depth d in frames from..to that name a
\* character the library can instantiate.
GoodPlaces(d, from, to) ==
    {k \in 1..Len(movie.tags) :
        /\ FrameOfTag(movie.tags, k) \in from..to
        /\ movie.tags[k].code = "PlaceObject2"
        /\ movie.tags[k].action # "Modify"
        /\ movie.tags[k].depth = d
        /\ CanInstantiate(movie.tags[k].id)}

Max(S) == CHOOSE m \in S : \A k \in S : k <= m

\* C34: a Place or Replace of a character the library cannot instantiate is
\* skipped with no change of state.  In natural playback the tag handler
\* returns the context it was given and the next tag of the frame still runs.
\* In a goto over frames that remove nothing from depth d, the failing
\* placements count for nothing: when the frames crossed hold a placement the
\* library can instantiate, d ends with a live, listed child of the last such
\* character; when a fast-forward crosses none, d keeps the occupant it had.
C34_FailedPlacementSkipped ==
    [][ /\ \A d \in Depths : \A t \in {PlaceTag(9, d), ReplaceTag(9, d)} :
            /\ PlaceObject(Ctx0, Root, t) = Ctx0
            /\ RunTags(Ctx0, Root, <<t, DoAction("z")>>, 1, 2, TRUE) =
                    DoActionTag(Ctx0, Root, <<t, DoAction("z")>>, 2)
        /\ (lastOp'.op = "goto_frame" /\ Clamp(lastOp'.frame) # objs[Root].current_frame) =>
            \A d \in Depths :
                LET n == Clamp(lastOp'.frame)
                    is_rewind == n < objs[Root].current_frame
                    from == IF is_rewind THEN 1 ELSE objs[Root].current_frame + 1
                    good == GoodPlaces(d, from, n)
                    x == objs'[Root].children[d]
                IN  ~RemovedIn(d, from, n) =>
                        /\ good # {} =>
                              /\ x # 0
                              /\ objs'[x].id = movie.tags[Max(good)].id
                              /\ ~objs'[x].removed
                              /\ x \in ExecListSet(objs', Root)
                        /\ (good = {} /\ ~is_rewind) =>
                              /\ x = objs[Root].children[d]
                              /\ x # 0 => /\ ~objs'[x].removed
                                          /\ x \in ExecListSet(objs', Root)
      ]_vars

----------------------------------------------------------------------------
(* C35: preload of a stream that holds a DefineFont4 tag *)

\* C35: preload never panics and runs to the End tag: once the clip has been
\* asked to preload, its static data are stored and every FrameLabel of the
\* stream, also one that follows a DefineFont4 tag, is in frame_labels with
\* the number of its frame.
C35_PreloadRunsToEnd ==
    /\ lastOp.op # "panic"
    /\ static_data.preloaded =>
            \A k \in 1..Len(movie.tags) :
                movie.tags[k].code = "FrameLabel" =>
                    static_data.frame_labels[movie.tags[k].data] # 0

----------------------------------------------------------------------------
(* C36: the playhead a goto leaves behind *)

\* The tags of frame f of a stream, its ShowFrame included.
TagsOfFrame(tags, f) == {k \in 1..Len(tags) : FrameOfTag(tags, k) = f}

Min(S) == CHOOSE m \in S : \A k \in S : m <= k

\* The byte offset just past the f-th ShowFrame of a stream.
FrameEnd(tags, f) == OffsetAfter(tags, Max(TagsOfFrame(tags, f)))

\* C36: after goto_frame(n) with 1 <= n < total_frames the clip is on frame n
\* with tag_stream_pos just past the n-th ShowFrame, as natural playback leaves
\* it; the next pass of run_frame_internal sets current_frame = n + 1, handles
\* exactly the tags of frame n + 1, each once and in order, and saves the
\* offset just past the (n+1)-th ShowFrame.
C36_GotoLeavesPlayhead ==
    (lastOp.op = "goto_frame" /\ lastOp.frame \in 1..(movie.total_frames - 1)) =>
        LET n == lastOp.frame
            tags == movie.tags
            r == RunFrameInternal(Ctx0, Root, TRUE)
            nxt == TagsOfFrame(tags, n + 1)
            expected == RunTags([Ctx0 EXCEPT !.objs[Root].current_frame = n + 1],
                                Root, tags, Min(nxt), Max(nxt), TRUE)
        IN  /\ current_frame = n
            /\ objs[Root].tag_stream_pos = FrameEnd(tags, n)
            /\ r.objs[Root].current_frame = n + 1
            /\ r.objs[Root].tag_stream_pos = FrameEnd(tags, n + 1)
            /\ r.queue = expected.queue
            /\ r.audio = expected.audio
            /\ r.background_color = expected.background_color
            /\ [r.objs EXCEPT ![Root].tag_stream_pos = 0] =
                    [expected.objs EXCEPT ![Root].tag_stream_pos = 0]

\* A rewind to frame 2 of a three-frame clip: the child frame 3 placed is
\* unloaded, the clip is on frame 2 and reads on from the end of frame 2.
C36_Witness ==
    /\ lastOp.op = "goto_frame"
    /\ lastOp.frame = 2
    /\ movie.total_frames = 3
    /\ current_frame = 2
    /\ objs[Root].tag_stream_pos = FrameEnd(movie.tags, 2)
    /\ \E x \in 1..Len(objs) :
            /\ objs[x].parent = Root
            /\ objs[x].removed
            /\ objs[x].place_frame = 3

----------------------------------------------------------------------------
(* C37: the shape of the exec list *)

\* C37: the exec list of every clip is a finite acyclic doubly-linked list of
\* the clip's current children: the walk from first_child ends, no object
\* occurs on it twice, the head has no prev_sibling, the successor of every
\* listed object points back to it, and every listed object is held by the
\* depth map (no removed child is reachable from the head).
C37_ExecListWellFormed ==
    \A o \in ClipObjs(objs) :
        LET w == Walk(objs, objs[o].first_child, Len(objs) + 1)
        IN  /\ Len(w) <= Len(objs)
            /\ \A i, j \in 1..Len(w) : w[i] = w[j] => i = j
            /\ objs[o].first_child # 0 => objs[objs[o].first_child].prev_sibling = 0
            /\ \A i \in 1..Len(w) :
                    /\ objs[w[i]].next_sibling # 0 =>
                            objs[objs[w[i]].next_sibling].prev_sibling = w[i]
                    /\ w[i] \in DepthMapSet(objs, o)

----------------------------------------------------------------------------
(* C38: what remove_child_from_avm removes *)

\* C38: in every state, remove_child_from_avm(child) for an object whose
\* parent is the clip leaves every other object alone: one that the depth map
\* or the exec list held is still held, none is flagged removed, and no action
\* is queued for any of them -- also when child is no longer the occupant of
\* its depth.
C38_RemovesOnlyTheChild ==
    \A child \in 1..Len(objs) :
        objs[child].parent = Root =>
            LET r == RemoveChildFromAvm(Ctx0, Root, child)
            IN  /\ \A y \in (1..Len(objs)) \ {child} :
                        /\ y \in DepthMapSet(objs, Root) => y \in DepthMapSet(r.objs, Root)
                        /\ y \in ExecListSet(objs, Root) => y \in ExecListSet(r.objs, Root)
                        /\ r.objs[y].removed = objs[y].removed
                /\ \A k \in 1..Len(r.queue) : r.queue[k].target = child

----------------------------------------------------------------------------
(* C39: the byte ranges of queued action blocks *)

\* The body of tag k of a stream: the bytes after its record header.
BodyStart(tags, k) == OffsetAfter(tags, k - 1) + 2

BodyEnd(tags, k) == OffsetAfter(tags, k)

\* C39: every queued block that a DoAction or a DoInitAction tag produced
\* spans bytes of that tag's body only: a DoAction block is the whole body, a
\* DoInitAction block starts after the two bytes of the sprite id and ends
\* with the body.
C39_SliceInsideTag ==
    \A n \in 1..Len(action_queue) :
        LET e == action_queue[n]
            tags == TagsOf(objs[e.target])
            code == IF e.type = "Init" THEN "DoInitAction" ELSE "DoAction"
            from == {k \in 1..Len(tags) : tags[k].code = code /\ tags[k].data = e.data}
        IN  (e.type \in {"Normal", "Init"} /\ from # {}) =>
                \E k \in from :
                    /\ e.start = BodyStart(tags, k) + (IF e.type = "Init" THEN 2 ELSE 0)
                    /\ e.start <= e.end
                    /\ e.end <= BodyEnd(tags, k)
                    /\ e.end = BodyEnd(tags, k)

----------------------------------------------------------------------------
(* C40: stream handles *)

\* The streams clip o started that stop_stream has not been called on.
OpenStreams(a, o) == {h \in StreamsOf(a, o) : a.streams[h].stops = 0}

\* C40: stop_stream is called at most once on every handle start_stream
\* returned; a clip has at most one stream that is started and not stopped,
\* and that stream is the one whose handle the clip holds, so a clip starts a
\* stream only while it holds no handle.
C40_OneOpenStream ==
    /\ \A h \in 1..Len(audio.streams) : audio.streams[h].stops <= 1
    /\ \A o \in ClipObjs(objs) :
            /\ Cardinality(OpenStreams(audio, o)) <= 1
            /\ OpenStreams(audio, o) \subseteq {objs[o].audio_stream}
            /\ objs[o].audio_stream # 0 => objs[o].audio_stream \in OpenStreams(audio, o)

\* The root has started a stream, had it stopped, and started another one,
\* whose handle it holds.
C40_Witness ==
    /\ objs[Root].audio_stream # 0
    /\ Cardinality(StreamsOf(audio, Root)) >= 2
    /\ Cardinality(OpenStreams(audio, Root)) = 1
    /\ \E h \in StreamsOf(audio, Root) : audio.streams[h].stops = 1

====
